---------------------------- MODULE Spec2Model ----------------------------
(***************************************************************************)
(* A model of the acquisition-to-decision pipeline of Drunk_App:           *)
(*   - SpscRing (spsc.h): push_overwrite / pop / pop_batch, one step per   *)
(*     access to shared memory, the payload copied in two halves;          *)
(*   - WelfordAnalyzer, BreathAnalyzer (analyzer.h / analyzer.cpp);        *)
(*   - RuntimeProcess::on_batch (processor_types.h).                       *)
(* Doubles are modelled as exact rationals <<num, den>>; std::sqrt is      *)
(* rounded up to a multiple of 1/SqrtScale.                                *)
(***************************************************************************)
EXTENDS Integers, Sequences, FiniteSets, TLC

(***************************************************************************)
(* Bounds of the model.                                                    *)
(***************************************************************************)
\* log2 of the ring's slot count (Config::RingSize is 4096 = 2^12)
RingBits == 2
\* pushes the producer makes beyond the slot count
ExtraPush == 2
\* largest max_batch a pop_batch call is given
MaxBatch == 3

\* samples the source produces in a run of the processor
MaxSamples == 4
\* samples waiting between the sampler and the runner
MaxPending == 2
\* cfg.min_window_sample_size the model runs with (Config default 80)
MinWindowSamples == 1
\* largest cfg.stable_consecutive_windows_req the model runs with
MaxReq == 2
\* std::sqrt is rounded up to a multiple of 1 / SqrtScale millivolt
SqrtScale == 1
\* windows fed to the breath state machine on its own
MaxWindows == 5
\* largest bcfg.warmup_stable_windows the model runs with (Config default 25)
MaxWarmup == 2
\* largest bcfg.cooldown_stable_windows the model runs with (Config default 25)
MaxCooldown == 2
\* ProcessRunner: the timeout and the two sleeps, in units of the clock
RunTimeout == 3
IdleSleep == 1
TickSleep == 2
\* stop_sampler calls counted
MaxStops == 2
\* ticks one sampling thread runs
MaxTicks == 4
\* run() calls on one ProcessRunner
MaxRuns == 2
\* events the on_breath handler is called with
MaxEvents == 3
\* WelfordStats on its own: the largest finite double, scaled down to the
\* model's units, and the longest sequence pushed
DBL_MAX == 4000
MaxSeq == 3

\* SpscRing<T, N>: N, a power of two (static_assert)
RingSize == 2 ^ RingBits
MaxPush == RingSize + ExtraPush

\* Config::WindowUs, Min_Blowtime_Seconds, Max_Blowtime_Seconds (microseconds)
WindowUs == 1000000
Min_Blowtime_Seconds == 400000
Max_Blowtime_Seconds == 5000000

VARIABLES
    \* ---- SpscRing members
    head_,          \* std::atomic<size_t> head_
    tail_,          \* std::atomic<size_t> tail_
    ring_buffer_,   \* std::array<T, N>: slot -> <<first half, second half>>
    \* ---- the producer thread inside push_overwrite
    ppc,            \* position of the producer
    p_value,        \* argument value
    p_head, p_next, p_overwriten, p_tail,   \* locals of push_overwrite
    p_ret,          \* last value returned by push_overwrite
    pushed,         \* number of push_overwrite calls made so far
    \* ---- the consumer thread inside pop_batch / pop
    cpc,            \* position of the consumer
    c_tail,         \* local tail of pop
    c_out,          \* pop's out parameter: <<first half, second half>>
    max_batch, element, batch,   \* pop_batch: argument, counter, out array
    c_ret,          \* last value returned by pop_batch
    \* ---- logical (unwrapped) cursor positions, for the properties only
    lhead, ltail, p_ltail, c_ltail,
    \* ---- history of the sequential scenario, for the properties only
    phase, round, rets, drained,
    \* ---- WelfordAnalyzer
    cfg,            \* Analyzer_Config
    wa,             \* WfS, prev_window_mean, stable_window_count, window_*_micro_sec
    \* ---- BreathAnalyzer
    bcfg,           \* BreathAnalyzer_Config
    ba,             \* breath_state, counters, times, peak, flags
    \* ---- RuntimeProcess
    rp,             \* snapshot_, bHasEvent, last_event
    \* ---- the sampler's side of the processor: samples not yet drained
    pending, now, produced,
    \* ---- history of the analysis, for the properties only
    hist,
    \* ---- LedWorker: its members, the worker thread, the LEDs, its history
    led,
    \* ---- ProcessRunner::run: its position, g_running, the clock, the
    \* ---- calibration processor's last_, what it returned, its history
    run,
    \* ---- Sampler: running, the thread, the threads inside start / stop /
    \* ---- run_sampler, dropped_, its history
    smp

ringVars == <<head_, tail_, ring_buffer_>>
prodVars == <<ppc, p_value, p_head, p_next, p_overwriten, p_tail, p_ret, pushed>>
consVars == <<cpc, c_tail, c_out, max_batch, element, batch, c_ret>>
logVars  == <<lhead, ltail, p_ltail, c_ltail>>
seqVars  == <<phase, round, rets, drained>>
ringAll  == <<ringVars, prodVars, consVars, logVars, seqVars>>
anaVars  == <<cfg, wa, bcfg, ba, rp, pending, now, produced, hist, led>>
ctlVars  == <<run, smp>>
vars == <<ringAll, anaVars, ctlVars>>

\* (x) & (N - 1): for N a power of two this is x mod N
Mask(x) == x % RingSize

\* a Sample is copied as two machine words; both carry the sample's id
Whole(v) == <<v, v>>

RingInit ==
    /\ head_ = 0
    /\ tail_ = 0
    /\ ring_buffer_ = [i \in 0 .. RingSize - 1 |-> Whole(0)]
    /\ ppc = "idle" /\ p_value = 0 /\ p_head = 0 /\ p_next = 0
    /\ p_overwriten = FALSE /\ p_tail = 0 /\ p_ret = TRUE /\ pushed = 0
    /\ cpc = "idle" /\ c_tail = 0 /\ c_out = Whole(0)
    /\ max_batch = 0 /\ element = 0 /\ batch = <<>> /\ c_ret = 0
    /\ lhead = 0 /\ ltail = 0 /\ p_ltail = 0 /\ c_ltail = 0
    /\ phase = "push" /\ round = <<>> /\ rets = <<>> /\ drained = <<>>

(***************************************************************************)
(* push_overwrite(value), spsc.h                                           *)
(***************************************************************************)
\* call; head = head_.load(); next = (head + 1) & (N - 1); overwriten = false
PushCall ==
    /\ ppc = "idle"
    /\ pushed < MaxPush
    /\ pushed' = pushed + 1
    /\ p_value' = pushed + 1
    /\ p_head' = head_
    /\ p_next' = Mask(head_ + 1)
    /\ p_overwriten' = FALSE
    /\ ppc' = "check"
    /\ UNCHANGED <<p_tail, p_ret, ringVars, consVars, logVars>>

\* variant of the test below that takes the ring for full when head == tail
PushCheckFull_Empty ==
    /\ ppc = "check"
    /\ IF p_head = tail_
          THEN p_overwriten' = TRUE /\ ppc' = "load_tail"
          ELSE p_overwriten' = p_overwriten /\ ppc' = "write1"
    /\ UNCHANGED <<p_value, p_head, p_next, p_tail, p_ret, pushed,
                   ringVars, consVars, logVars>>

\* variant of the test below that waits for the consumer while the ring
\* is full
PushCheckFull_Wait ==
    /\ ppc = "check"
    /\ p_next # tail_
    /\ p_overwriten' = p_overwriten /\ ppc' = "write1"
    /\ UNCHANGED <<p_value, p_head, p_next, p_tail, p_ret, pushed,
                   ringVars, consVars, logVars>>

\* if (next == tail_.load(acquire)) { overwriten = true; ...
PushCheckFull ==
    /\ ppc = "check"
    /\ IF p_next = tail_
          THEN p_overwriten' = TRUE /\ ppc' = "load_tail"
          ELSE p_overwriten' = p_overwriten /\ ppc' = "write1"
    /\ UNCHANGED <<p_value, p_head, p_next, p_tail, p_ret, pushed,
                   ringVars, consVars, logVars>>

\* auto tail = tail_.load(relaxed)
PushLoadTail ==
    /\ ppc = "load_tail"
    /\ p_tail' = tail_
    /\ p_ltail' = ltail
    /\ ppc' = "store_tail"
    /\ UNCHANGED <<p_value, p_head, p_next, p_overwriten, p_ret, pushed,
                   ringVars, consVars, lhead, ltail, c_ltail>>

\* variant of the store below that drops two samples instead of one
PushStoreTail_M ==
    /\ ppc = "store_tail"
    /\ tail_' = Mask(p_tail + 2)
    /\ ltail' = p_ltail + 2
    /\ ppc' = "write1"
    /\ UNCHANGED <<head_, ring_buffer_, p_value, p_head, p_next, p_overwriten,
                   p_tail, p_ret, pushed, consVars, lhead, p_ltail, c_ltail>>

\* tail_.store((tail + 1) & (N - 1), release)
PushStoreTail ==
    /\ ppc = "store_tail"
    /\ tail_' = Mask(p_tail + 1)
    /\ ltail' = p_ltail + 1
    /\ ppc' = "write1"
    /\ UNCHANGED <<head_, ring_buffer_, p_value, p_head, p_next, p_overwriten,
                   p_tail, p_ret, pushed, consVars, lhead, p_ltail, c_ltail>>

\* ring_buffer_[head] = value, first half of the copy
PushWrite1 ==
    /\ ppc = "write1"
    /\ ring_buffer_' = [ring_buffer_ EXCEPT ![p_head] = <<p_value, @[2]>>]
    /\ ppc' = "write2"
    /\ UNCHANGED <<head_, tail_, p_value, p_head, p_next, p_overwriten,
                   p_tail, p_ret, pushed, consVars, logVars>>

\* ring_buffer_[head] = value, second half of the copy
PushWrite2 ==
    /\ ppc = "write2"
    /\ ring_buffer_' = [ring_buffer_ EXCEPT ![p_head] = <<@[1], p_value>>]
    /\ ppc' = "publish"
    /\ UNCHANGED <<head_, tail_, p_value, p_head, p_next, p_overwriten,
                   p_tail, p_ret, pushed, consVars, logVars>>

\* variant of the step below that returns overwriten
PushPublish_M ==
    /\ ppc = "publish"
    /\ head_' = p_next
    /\ lhead' = lhead + 1
    /\ p_ret' = p_overwriten
    /\ ppc' = "idle"
    /\ UNCHANGED <<tail_, ring_buffer_, p_value, p_head, p_next, p_overwriten,
                   p_tail, pushed, consVars, ltail, p_ltail, c_ltail>>

\* head_.store(next, release); return !overwriten
PushPublish ==
    /\ ppc = "publish"
    /\ head_' = p_next
    /\ lhead' = lhead + 1
    /\ p_ret' = ~p_overwriten
    /\ ppc' = "idle"
    /\ UNCHANGED <<tail_, ring_buffer_, p_value, p_head, p_next, p_overwriten,
                   p_tail, pushed, consVars, ltail, p_ltail, c_ltail>>

push_overwrite ==
    \/ PushCall
    \/ PushCheckFull
    \/ PushLoadTail
    \/ PushStoreTail
    \/ PushWrite1
    \/ PushWrite2
    \/ PushPublish

(***************************************************************************)
(* pop_batch(out, max_batch) and pop(out), spsc.h                          *)
(***************************************************************************)
\* call of pop_batch: size_t element = 0
PopBatchCall(mb) ==
    /\ cpc = "idle"
    /\ max_batch' = mb
    /\ element' = 0
    /\ batch' = <<>>
    /\ cpc' = "loop"
    /\ UNCHANGED <<c_tail, c_out, c_ret, ringVars, prodVars, logVars>>

\* while (element < max_batch) -> pop: tail = tail_.load(relaxed);
\* otherwise return element
PopLoadTail ==
    /\ cpc = "loop"
    /\ IF element < max_batch
          THEN /\ c_tail' = tail_
               /\ c_ltail' = ltail
               /\ cpc' = "check"
               /\ c_ret' = c_ret
          ELSE /\ c_ret' = element
               /\ cpc' = "idle"
               /\ UNCHANGED <<c_tail, c_ltail>>
    /\ UNCHANGED <<c_out, max_batch, element, batch, ringVars, prodVars,
                   lhead, ltail, p_ltail>>

\* if (tail == head_.load(acquire)) return false;   (pop_batch: break)
PopCheckEmpty ==
    /\ cpc = "check"
    /\ IF c_tail = head_
          THEN c_ret' = element /\ cpc' = "idle"
          ELSE c_ret' = c_ret /\ cpc' = "read1"
    /\ UNCHANGED <<c_tail, c_out, max_batch, element, batch, ringVars,
                   prodVars, logVars>>

\* out = ring_buffer_[tail], first half of the copy
PopRead1 ==
    /\ cpc = "read1"
    /\ c_out' = <<ring_buffer_[c_tail][1], c_out[2]>>
    /\ cpc' = "read2"
    /\ UNCHANGED <<c_tail, max_batch, element, batch, c_ret, ringVars,
                   prodVars, logVars>>

\* out = ring_buffer_[tail], second half of the copy
PopRead2 ==
    /\ cpc = "read2"
    /\ c_out' = <<c_out[1], ring_buffer_[c_tail][2]>>
    /\ cpc' = "store_tail"
    /\ UNCHANGED <<c_tail, max_batch, element, batch, c_ret, ringVars,
                   prodVars, logVars>>

\* tail_.store((tail + 1) & (N - 1), release); return true; ++element
PopStoreTail ==
    /\ cpc = "store_tail"
    /\ tail_' = Mask(c_tail + 1)
    /\ ltail' = c_ltail + 1
    /\ batch' = Append(batch, c_out)
    /\ element' = element + 1
    /\ cpc' = "loop"
    /\ UNCHANGED <<head_, ring_buffer_, c_tail, c_out, max_batch, c_ret,
                   prodVars, lhead, p_ltail, c_ltail>>

pop ==
    \/ PopLoadTail
    \/ PopCheckEmpty
    \/ PopRead1
    \/ PopRead2
    \/ PopStoreTail

pop_batch ==
    \/ \E mb \in 1 .. MaxBatch : PopBatchCall(mb)
    \/ pop

(***************************************************************************)
(* The ring with one producer thread and one consumer thread               *)
(***************************************************************************)
RingNext ==
    \/ push_overwrite /\ UNCHANGED <<seqVars, anaVars, ctlVars>>
    \/ pop_batch /\ UNCHANGED <<seqVars, anaVars, ctlVars>>

(***************************************************************************)
(* The ring used by one thread at a time: a round of push_overwrite calls  *)
(* into the empty ring, then pop_batch calls until one returns 0.          *)
(***************************************************************************)
\* a push_overwrite step; round and rets record its argument and its result
SeqPush ==
    /\ phase = "push"
    /\ push_overwrite
    /\ round' = IF ppc = "idle" THEN Append(round, p_value') ELSE round
    /\ rets' = IF ppc = "publish" THEN Append(rets, p_ret') ELSE rets
    /\ UNCHANGED <<phase, drained>>

\* the pushing stops between two calls and the drain begins
SeqStartDrain ==
    /\ phase = "push"
    /\ ppc = "idle"
    /\ phase' = "drain"
    /\ UNCHANGED <<ringVars, prodVars, consVars, logVars, round, rets, drained>>

\* a pop_batch step; drained collects what each call returned, and the
\* drain is complete when a call returns 0
SeqDrain ==
    /\ phase = "drain"
    /\ pop_batch
    /\ drained' = IF cpc # "idle" /\ cpc' = "idle"
                     THEN drained \o batch' ELSE drained
    /\ phase' = IF cpc # "idle" /\ cpc' = "idle" /\ c_ret' = 0
                   THEN "done" ELSE "drain"
    /\ UNCHANGED <<round, rets>>

\* the ring is empty again: the next round of pushes
SeqNewRound ==
    /\ phase = "done"
    /\ pushed < MaxPush
    /\ phase' = "push"
    /\ round' = <<>>
    /\ rets' = <<>>
    /\ drained' = <<>>
    /\ UNCHANGED <<ringVars, prodVars, consVars, logVars>>

SeqNext ==
    \/ SeqPush /\ UNCHANGED <<anaVars, ctlVars>>
    \/ SeqStartDrain /\ UNCHANGED <<anaVars, ctlVars>>
    \/ SeqDrain /\ UNCHANGED <<anaVars, ctlVars>>
    \/ SeqNewRound /\ UNCHANGED <<anaVars, ctlVars>>

\* the last k elements of a sequence of at least k elements
LastK(s, k) == SubSeq(s, Len(s) - k + 1, Len(s))
\* the samples as they sit in memory
Wholes(s) == [i \in 1 .. Len(s) |-> Whole(s[i])]
\* the unread elements, oldest first: the slots from tail_ up to head_
Unread ==
    [i \in 1 .. ((head_ - tail_ + RingSize) % RingSize)
        |-> ring_buffer_[Mask(tail_ + i - 1)]]

(***************************************************************************)
(* double: exact rationals <<numerator, denominator>> in lowest terms,     *)
(* voltages in millivolts.  NaN is a value of its own.                     *)
(***************************************************************************)
RECURSIVE Gcd(_, _)
Gcd(a, b) == IF b = 0 THEN a ELSE Gcd(b, a % b)
Abs(i) == IF i < 0 THEN -i ELSE i
Rat(n, d) ==
    LET g == Gcd(Abs(n), d) IN IF n = 0 THEN <<0, 1>> ELSE <<n \div g, d \div g>>
R0 == <<0, 1>>
RInt(i) == <<i, 1>>
RAdd(a, b) == Rat(a[1] * b[2] + b[1] * a[2], a[2] * b[2])
RSub(a, b) == Rat(a[1] * b[2] - b[1] * a[2], a[2] * b[2])
RMul(a, b) == Rat(a[1] * b[1], a[2] * b[2])
\* a / b for b > 0
RDiv(a, b) == Rat(a[1] * b[2], a[2] * b[1])
RLe(a, b) == a[1] * b[2] <= b[1] * a[2]
RLt(a, b) == a[1] * b[2] < b[1] * a[2]
RAbs(a) == <<Abs(a[1]), a[2]>>
RMax(a, b) == IF RLt(a, b) THEN b ELSE a
NaN == "NaN"
isfinite(x) == x # NaN

\* double arithmetic as WelfordStats uses it: the exact result when it is
\* within +-DBL_MAX, an infinity when it is beyond, NaN for inf - inf and
\* 0 * inf.  Rounding inside the range is not modelled.
Inf == <<1, 0>>
NegInf == <<-1, 0>>
Fin(x) == x # NaN /\ x[2] # 0
Ovf(x) ==
    IF x[1] > DBL_MAX * x[2] THEN Inf
    ELSE IF x[1] < (-DBL_MAX) * x[2] THEN NegInf
    ELSE x
FAdd(a, b) ==
    IF a = NaN \/ b = NaN THEN NaN
    ELSE IF ~Fin(a) THEN (IF ~Fin(b) /\ b # a THEN NaN ELSE a)
    ELSE IF ~Fin(b) THEN b
    ELSE Ovf(RAdd(a, b))
FSub(a, b) == FAdd(a, IF b = NaN THEN NaN ELSE <<-b[1], b[2]>>)
FMul(a, b) ==
    IF a = NaN \/ b = NaN THEN NaN
    ELSE IF Fin(a) /\ Fin(b) THEN Ovf(RMul(a, b))
    ELSE IF a = R0 \/ b = R0 THEN NaN
    ELSE IF (a = NegInf \/ (Fin(a) /\ a[1] < 0))
              = (b = NegInf \/ (Fin(b) /\ b[1] < 0))
       THEN Inf ELSE NegInf
\* a / (double)n for a count n > 0
FDiv(a, n) == IF Fin(a) THEN RDiv(a, RInt(n)) ELSE a

\* std::sqrt of a >= 0, rounded up to the next multiple of 1 / SqrtScale
RECURSIVE SqrtUp(_, _)
SqrtUp(a, k) ==
    IF k * k * a[2] >= a[1] * SqrtScale * SqrtScale THEN Rat(k, SqrtScale)
    ELSE SqrtUp(a, k + 1)
sqrt(a) == SqrtUp(a, 0)

(***************************************************************************)
(* config_settings.h: Analyzer_Config and BreathAnalyzer_Config defaults   *)
(***************************************************************************)
Max_Sd_Threshold == <<2, 1>>            \* 0.002 V
Max_Drift_Rate_Per_Sec == <<1, 1>>      \* 0.001 V per second
Rise_Hysteresis == <<50, 1>>            \* 0.05 V
Fall_Hysteresis == <<20, 1>>            \* 0.02 V
Ready_Hysteresis == <<10, 1>>           \* 0.01 V
Rise_Noise_Factor == <<3, 1>>
Fall_Noise_Factor == <<2, 1>>
Ready_Noise_Factor == <<2, 1>>
\* Baseline_Alpha_Percent is 0.05; the model runs with 1/2
Baseline_Alpha_Percent == <<1, 2>>
us_to_sec == 1000000
SamplePeriod == 7812

Analyzer_Config(req) ==
    [ window_micro |-> WindowUs,
      min_window_sample_size |-> MinWindowSamples,
      stddev_max |-> Max_Sd_Threshold,
      drift_per_sec_max |-> Max_Drift_Rate_Per_Sec,
      stable_consecutive_windows_req |-> req ]

BreathAnalyzer_Config(warm, cool, minblow) ==
    [ warmup_stable_windows |-> warm,
      cooldown_stable_windows |-> cool,
      min_blow_time_us |-> minblow,
      max_blow_time_us |-> Max_Blowtime_Seconds,
      start_delta_v |-> Rise_Hysteresis,
      end_delta_v |-> Fall_Hysteresis,
      baseline_alpha |-> Baseline_Alpha_Percent,
      start_k_sigma |-> Rise_Noise_Factor,
      end_k_sigma |-> Rise_Noise_Factor,
      ready_delta_v |-> Ready_Hysteresis,
      ready_k_sigma |-> Ready_Noise_Factor ]

(***************************************************************************)
(* analyzer.h: WelfordStats, WindowResult                                  *)
(***************************************************************************)
WelfordStats == [num_samples |-> 0, mean |-> R0, m2 |-> R0]

\* WelfordStats::push
WfS_push(w, value) ==
    LET n      == w.num_samples + 1
        delta  == FSub(value, w.mean)
        mean   == FAdd(w.mean, FDiv(delta, n))
        delta2 == FSub(value, mean)
    IN  [num_samples |-> n, mean |-> mean, m2 |-> FAdd(w.m2, FMul(delta, delta2))]

variance_sample(w) ==
    IF w.num_samples > 1 THEN FDiv(w.m2, w.num_samples - 1) ELSE R0

stddev_sample(w) == sqrt(variance_sample(w))

WindowResult ==
    [ stable |-> FALSE, mean |-> R0, stddev |-> R0, mean_prev |-> R0,
      drift_per_sec |-> R0, window_start_us |-> 0, window_end_us |-> 0 ]

\* StepResult<ResultT>{}
StepResult(result) == [action |-> "Continue", event |-> "None", result |-> result]

(***************************************************************************)
(* analyzer.cpp: WelfordAnalyzer                                           *)
(***************************************************************************)
WelfordAnalyzer ==
    [ WfS |-> WelfordStats,
      stable_window_count |-> 0,
      window_start_micro_sec |-> 0,
      window_end_micro_sec |-> 0,
      prev_window_mean |-> NaN ]

\* variant of FinalizeWindow below whose streak survives a window that
\* had enough samples but missed a threshold
FinalizeWindow_M(a) ==
    LET start == a.window_start_micro_sec
        end   == a.window_start_micro_sec + cfg.window_micro
        num_samples == a.WfS.num_samples
        mean  == a.WfS.mean
        standard_deviation == stddev_sample(a.WfS)
        dt_second == Rat(cfg.window_micro, us_to_sec)
        drift_per_sec ==
            IF isfinite(a.prev_window_mean)
               THEN RDiv(RAbs(RSub(mean, a.prev_window_mean)), dt_second)
               ELSE R0
        bWindowStable ==
            /\ RLe(standard_deviation, cfg.stddev_max)
            /\ (~isfinite(a.prev_window_mean)
                  \/ RLe(drift_per_sec, cfg.drift_per_sec_max))
        count == IF bWindowStable THEN a.stable_window_count + 1
                                  ELSE a.stable_window_count
    IN  IF num_samples < cfg.min_window_sample_size
        THEN [ wa |-> [a EXCEPT !.stable_window_count = 0],
               window |->
                 [ stable |-> FALSE, mean |-> mean,
                   stddev |-> standard_deviation,
                   mean_prev |-> a.prev_window_mean,
                   drift_per_sec |-> R0,
                   window_start_us |-> start, window_end_us |-> end ] ]
        ELSE [ wa |-> [a EXCEPT !.stable_window_count = count,
                                !.prev_window_mean = mean],
               window |->
                 [ stable |-> (count >= cfg.stable_consecutive_windows_req),
                   mean |-> mean,
                   stddev |-> standard_deviation,
                   mean_prev |-> a.prev_window_mean,
                   drift_per_sec |-> drift_per_sec,
                   window_start_us |-> start, window_end_us |-> end ] ]

\* variant of the function below whose insufficient-sample branch leaves
\* the streak as it is
FinalizeWindow_KeepStreak(a) ==
    LET start == a.window_start_micro_sec
        end   == a.window_start_micro_sec + cfg.window_micro
        mean  == a.WfS.mean
        standard_deviation == stddev_sample(a.WfS)
        dt_second == Rat(cfg.window_micro, us_to_sec)
        drift_per_sec ==
            IF isfinite(a.prev_window_mean)
               THEN RDiv(RAbs(RSub(mean, a.prev_window_mean)), dt_second)
               ELSE R0
        bWindowStable ==
            /\ RLe(standard_deviation, cfg.stddev_max)
            /\ (~isfinite(a.prev_window_mean)
                  \/ RLe(drift_per_sec, cfg.drift_per_sec_max))
        count == IF bWindowStable THEN a.stable_window_count + 1 ELSE 0
    IN  IF a.WfS.num_samples < cfg.min_window_sample_size
        THEN [ wa |-> a,
               window |->
                 [ stable |-> FALSE, mean |-> mean,
                   stddev |-> standard_deviation,
                   mean_prev |-> a.prev_window_mean,
                   drift_per_sec |-> R0,
                   window_start_us |-> start, window_end_us |-> end ] ]
        ELSE [ wa |-> [a EXCEPT !.stable_window_count = count,
                                !.prev_window_mean = mean],
               window |->
                 [ stable |-> (count >= cfg.stable_consecutive_windows_req),
                   mean |-> mean,
                   stddev |-> standard_deviation,
                   mean_prev |-> a.prev_window_mean,
                   drift_per_sec |-> drift_per_sec,
                   window_start_us |-> start, window_end_us |-> end ] ]

\* FinalizeWindow(): the analyzer after the call and the window it returns
FinalizeWindow(a) ==
    LET start == a.window_start_micro_sec
        end   == a.window_start_micro_sec + cfg.window_micro
        num_samples == a.WfS.num_samples
        mean  == a.WfS.mean
        standard_deviation == stddev_sample(a.WfS)
        dt_second == Rat(cfg.window_micro, us_to_sec)
        drift_per_sec ==
            IF isfinite(a.prev_window_mean)
               THEN RDiv(RAbs(RSub(mean, a.prev_window_mean)), dt_second)
               ELSE R0
        bWindowStable ==
            /\ RLe(standard_deviation, cfg.stddev_max)
            /\ (~isfinite(a.prev_window_mean)
                  \/ RLe(drift_per_sec, cfg.drift_per_sec_max))
        count == IF bWindowStable THEN a.stable_window_count + 1 ELSE 0
    IN  IF num_samples < cfg.min_window_sample_size
        THEN [ wa |-> [a EXCEPT !.stable_window_count = 0],
               window |->
                 [ stable |-> FALSE, mean |-> mean,
                   stddev |-> standard_deviation,
                   mean_prev |-> a.prev_window_mean,
                   drift_per_sec |-> R0,
                   window_start_us |-> start, window_end_us |-> end ] ]
        ELSE [ wa |-> [a EXCEPT !.stable_window_count = count,
                                !.prev_window_mean = mean],
               window |->
                 [ stable |-> (count >= cfg.stable_consecutive_windows_req),
                   mean |-> mean,
                   stddev |-> standard_deviation,
                   mean_prev |-> a.prev_window_mean,
                   drift_per_sec |-> drift_per_sec,
                   window_start_us |-> start, window_end_us |-> end ] ]

\* the element of a singleton: Only({F(x) : x \in {e}}) is F(e), with e
\* evaluated once
Only(S) == CHOOSE x \in S : TRUE

\* the while loop of AnalyzeSample; acc.fins lists, for the properties, every
\* window finalized with the samples it had accumulated (acc.cur)
RECURSIVE FinalizeLoop(_, _)
FinalizeLoop(acc, t) ==
    Only({ IF t - a.wa.window_start_micro_sec >= cfg.window_micro
           THEN Only({ FinalizeLoop(
                         [ wa   |-> [f.wa EXCEPT
                                      !.window_start_micro_sec =
                                          @ + cfg.window_micro,
                                      !.WfS = WelfordStats],
                           out  |-> StepResult(f.window),
                           fins |-> Append(a.fins, [win |-> f.window,
                                                    samples |-> a.cur]),
                           cur  |-> <<>> ], t)
                       : f \in {FinalizeWindow(a.wa)} })
           ELSE a
           : a \in {acc} })

\* AnalyzeSample(t_micro, sample): the analyzer after the call (wa) and the
\* StepResult returned (out); cur and fins are the history for the properties
AnalyzeSample(a, cur, t_micro, sample) ==
    LET a1 == IF a.window_start_micro_sec = 0
                 THEN [a EXCEPT !.window_start_micro_sec = t_micro]
                 ELSE a
    IN  Only({ [ wa   |-> [l.wa EXCEPT !.WfS = WfS_push(@, sample),
                                      !.window_end_micro_sec = t_micro],
                 out  |-> l.out,
                 fins |-> l.fins,
                 cur  |-> Append(l.cur, [t_us |-> t_micro, volts |-> sample]) ]
               : l \in {FinalizeLoop([wa |-> a1,
                                      out |-> StepResult(WindowResult),
                                      fins |-> <<>>, cur |-> cur], t_micro)} })

\* the for loop of AnalyzeBatch from sample i on; acc.fed counts, for the
\* properties, the samples handed to AnalyzeSample
RECURSIVE BatchLoop(_, _, _)
BatchLoop(acc0, Samples, i) ==
    IF i > Len(Samples) THEN acc0
    ELSE Only({ LET nxt == [ wa |-> step.wa, cur |-> step.cur,
                             fins |-> acc.fins \o step.fins,
                             fed |-> acc.fed + 1,
                             last_finalized |-> acc.last_finalized ]
                IN  IF step.out.result.window_end_us = 0
                       THEN BatchLoop(nxt, Samples, i + 1)
                    ELSE IF step.out.result.stable
                       THEN [nxt EXCEPT !.last_finalized = step.out]
                    ELSE BatchLoop([nxt EXCEPT !.last_finalized = step.out],
                                   Samples, i + 1)
                : acc \in {acc0}, step \in {AnalyzeSample(
                     acc0.wa, acc0.cur, Samples[i].t_us, Samples[i].volts)} })

\* AnalyzeBatch(Samples, n, get_volts): the analyzer after the call (wa) and
\* the StepResult returned (last_finalized)
AnalyzeBatch(a, cur, Samples) ==
    BatchLoop([ wa |-> a, cur |-> cur, fins |-> <<>>, fed |-> 0,
                last_finalized |-> StepResult(WindowResult) ], Samples, 1)

(***************************************************************************)
(* analyzer.h / analyzer.cpp: BreathAnalyzer                               *)
(***************************************************************************)
BreathEvent ==
    [start_us |-> 0, end_us |-> 0, peak_voltage |-> R0, State |-> "Warmup"]

BreathResult ==
    [ baseline_mean |-> R0, baseline_std |-> R0, peak_volts |-> R0,
      last_window |-> WindowResult ]

BreathAnalyzer ==
    [ breath_state |-> "Warmup",
      baseline_stable_count |-> 0,
      cooldown_stable_count |-> 0,
      breath_start_us |-> 0,
      cooldown_start_us |-> 0,
      analyzed_end_us |-> 0,
      cur_peak_voltage |-> R0,
      bWarmedup |-> FALSE,
      bFoundbaseline |-> FALSE,
      bFreezebaseline |-> FALSE ]

\* The helpers below take and return x = [ba, br, ev, ret]: the analyzer,
\* the caller's BreathResult and BreathEvent, and the value returned.

\* (1 - alpha) * old + alpha * new
Ewma(old, new) ==
    RAdd(RMul(RSub(RInt(1), bcfg.baseline_alpha), old),
         RMul(bcfg.baseline_alpha, new))

\* variant of UpdateBaseline below that takes unstable windows too
UpdateBaseline_AnyWindow(x, breathwindow) ==
    IF x.ba.bFreezebaseline THEN x
    ELSE LET first == ~x.ba.bFoundbaseline
             mean0 == IF first THEN breathwindow.mean ELSE x.br.baseline_mean
             std0  == IF first THEN breathwindow.stddev ELSE x.br.baseline_std
             cnt0  == IF first THEN 1 ELSE x.ba.baseline_stable_count
         IN  [x EXCEPT
                !.br.baseline_mean = Ewma(mean0, breathwindow.mean),
                !.br.baseline_std = Ewma(std0, breathwindow.stddev),
                !.ba.bFoundbaseline = TRUE,
                !.ba.baseline_stable_count =
                    IF ~x.ba.bWarmedup THEN cnt0 + 1 ELSE cnt0]

\* UpdateBaseline(breathwindow, breathresult)
UpdateBaseline(x, breathwindow) ==
    IF x.ba.bFreezebaseline THEN x
    ELSE IF ~breathwindow.stable THEN x
    ELSE LET first == ~x.ba.bFoundbaseline
             mean0 == IF first THEN breathwindow.mean ELSE x.br.baseline_mean
             std0  == IF first THEN breathwindow.stddev ELSE x.br.baseline_std
             cnt0  == IF first THEN 1 ELSE x.ba.baseline_stable_count
         IN  [x EXCEPT
                !.br.baseline_mean = Ewma(mean0, breathwindow.mean),
                !.br.baseline_std = Ewma(std0, breathwindow.stddev),
                !.ba.bFoundbaseline = TRUE,
                !.ba.baseline_stable_count =
                    IF ~x.ba.bWarmedup THEN cnt0 + 1 ELSE cnt0]

\* Warmup()
Warmup(x) ==
    IF x.ba.bFoundbaseline
         /\ x.ba.baseline_stable_count >= bcfg.warmup_stable_windows
    THEN [x EXCEPT !.ba.bWarmedup = TRUE,
                   !.ba.breath_state = "Ready",
                   !.ba.baseline_stable_count = 0,
                   !.ret = FALSE]
    ELSE [x EXCEPT !.ba.breath_state = "Warmup", !.ret = FALSE]

\* variant of Ready below that takes the end of the window as the start of
\* the breath
Ready_EndAsStart(x, breathwindow, start_threshold) ==
    IF RLt(breathwindow.mean, start_threshold) THEN [x EXCEPT !.ret = FALSE]
    ELSE [x EXCEPT
            !.ba.breath_state = "Processing",
            !.ba.breath_start_us = breathwindow.window_end_us,
            !.ba.cur_peak_voltage = breathwindow.mean,
            !.br.peak_volts = breathwindow.mean,
            !.ba.cooldown_stable_count = 0,
            !.ret = FALSE]

\* Ready(breathwindow, breathresult, start_threshold)
\* variant of Ready below that always starts the excursion at the end of
\* the window
Ready_StartAtEnd(x, breathwindow, start_threshold) ==
    IF RLt(breathwindow.mean, start_threshold) THEN [x EXCEPT !.ret = FALSE]
    ELSE [x EXCEPT
            !.ba.breath_state = "Processing",
            !.ba.breath_start_us = breathwindow.window_end_us,
            !.ba.cur_peak_voltage = breathwindow.mean,
            !.br.peak_volts = breathwindow.mean,
            !.ba.cooldown_stable_count = 0,
            !.ret = FALSE]

Ready(x, breathwindow, start_threshold) ==
    IF RLt(breathwindow.mean, start_threshold) THEN [x EXCEPT !.ret = FALSE]
    ELSE [x EXCEPT
            !.ba.breath_state = "Processing",
            !.ba.breath_start_us =
                IF breathwindow.window_start_us # 0
                   THEN breathwindow.window_start_us
                   ELSE breathwindow.window_end_us,
            !.ba.cur_peak_voltage = breathwindow.mean,
            !.br.peak_volts = breathwindow.mean,
            !.ba.cooldown_stable_count = 0,
            !.ret = FALSE]

\* variant of Processing below whose event carries the mean of the last
\* window as its peak
Processing_LastMean(x, breathwindow, end_threshold) ==
    LET peak == RMax(x.ba.cur_peak_voltage, breathwindow.mean)
        x1 == [x EXCEPT !.ba.cur_peak_voltage = peak, !.br.peak_volts = peak]
        elapsed == breathwindow.window_end_us - x.ba.breath_start_us
        falling_edge == RLe(breathwindow.mean, end_threshold)
        blowtimeout == elapsed >= bcfg.max_blow_time_us
    IN  IF ~falling_edge /\ ~blowtimeout THEN [x1 EXCEPT !.ret = FALSE]
        ELSE IF elapsed < bcfg.min_blow_time_us
        THEN [x1 EXCEPT !.ba.breath_state = "Cooldown",
                        !.ba.cooldown_start_us = breathwindow.window_end_us,
                        !.ba.cooldown_stable_count = 0,
                        !.ret = FALSE]
        ELSE [x1 EXCEPT !.ev.start_us = x.ba.breath_start_us,
                        !.ev.end_us = breathwindow.window_end_us,
                        !.ev.peak_voltage = breathwindow.mean,
                        !.ba.analyzed_end_us = breathwindow.window_end_us,
                        !.ba.breath_state = "Analyzed",
                        !.ret = TRUE]

\* variant of Processing below without the min_blow_time_us test
Processing_NoMin(x, breathwindow, end_threshold) ==
    LET peak == RMax(x.ba.cur_peak_voltage, breathwindow.mean)
        x1 == [x EXCEPT !.ba.cur_peak_voltage = peak, !.br.peak_volts = peak]
        elapsed == breathwindow.window_end_us - x.ba.breath_start_us
        falling_edge == RLe(breathwindow.mean, end_threshold)
        blowtimeout == elapsed >= bcfg.max_blow_time_us
    IN  IF ~falling_edge /\ ~blowtimeout THEN [x1 EXCEPT !.ret = FALSE]
        ELSE [x1 EXCEPT !.ev.start_us = x.ba.breath_start_us,
                        !.ev.end_us = breathwindow.window_end_us,
                        !.ev.peak_voltage = peak,
                        !.ba.analyzed_end_us = breathwindow.window_end_us,
                        !.ba.breath_state = "Analyzed",
                        !.ret = TRUE]

\* Processing(breathwindow, breathresult, end_threshold, out_event)
Processing(x, breathwindow, end_threshold) ==
    LET peak == RMax(x.ba.cur_peak_voltage, breathwindow.mean)
        x1 == [x EXCEPT !.ba.cur_peak_voltage = peak, !.br.peak_volts = peak]
        elapsed == breathwindow.window_end_us - x.ba.breath_start_us
        falling_edge == RLe(breathwindow.mean, end_threshold)
        blowtimeout == elapsed >= bcfg.max_blow_time_us
    IN  IF ~falling_edge /\ ~blowtimeout THEN [x1 EXCEPT !.ret = FALSE]
        ELSE IF elapsed < bcfg.min_blow_time_us
        THEN [x1 EXCEPT !.ba.breath_state = "Cooldown",
                        !.ba.cooldown_start_us = breathwindow.window_end_us,
                        !.ba.cooldown_stable_count = 0,
                        !.ret = FALSE]
        ELSE [x1 EXCEPT !.ev.start_us = x.ba.breath_start_us,
                        !.ev.end_us = breathwindow.window_end_us,
                        !.ev.peak_voltage = peak,
                        !.ba.analyzed_end_us = breathwindow.window_end_us,
                        !.ba.breath_state = "Analyzed",
                        !.ret = TRUE]

\* variant of Cooldown below that goes back to Warmup instead of Ready
Cooldown_M(x, breathwindow, ready_threshold) ==
    IF breathwindow.stable /\ RLe(breathwindow.mean, ready_threshold)
    THEN IF x.ba.cooldown_stable_count + 1 >= bcfg.cooldown_stable_windows
         THEN [x EXCEPT !.ba.breath_state = "Warmup",
                        !.ba.cooldown_stable_count = 0,
                        !.ba.cur_peak_voltage = R0,
                        !.br.peak_volts = R0,
                        !.ret = FALSE]
         ELSE [x EXCEPT !.ba.cooldown_stable_count = @ + 1, !.ret = FALSE]
    ELSE [x EXCEPT !.ba.cooldown_stable_count = 0, !.ret = FALSE]

\* variant of Cooldown below that keeps its counter over a window that
\* does not qualify
Cooldown_NoReset(x, breathwindow, ready_threshold) ==
    IF breathwindow.stable /\ RLe(breathwindow.mean, ready_threshold)
    THEN IF x.ba.cooldown_stable_count + 1 >= bcfg.cooldown_stable_windows
         THEN [x EXCEPT !.ba.breath_state = "Ready",
                        !.ba.cooldown_stable_count = 0,
                        !.ba.cur_peak_voltage = R0,
                        !.br.peak_volts = R0,
                        !.ret = FALSE]
         ELSE [x EXCEPT !.ba.cooldown_stable_count = @ + 1, !.ret = FALSE]
    ELSE [x EXCEPT !.ret = FALSE]

\* Cooldown(breathwindow, breathresult, ready_threshold)
Cooldown(x, breathwindow, ready_threshold) ==
    IF breathwindow.stable /\ RLe(breathwindow.mean, ready_threshold)
    THEN IF x.ba.cooldown_stable_count + 1 >= bcfg.cooldown_stable_windows
         THEN [x EXCEPT !.ba.breath_state = "Ready",
                        !.ba.cooldown_stable_count = 0,
                        !.ba.cur_peak_voltage = R0,
                        !.br.peak_volts = R0,
                        !.ret = FALSE]
         ELSE [x EXCEPT !.ba.cooldown_stable_count = @ + 1, !.ret = FALSE]
    ELSE [x EXCEPT !.ba.cooldown_stable_count = 0, !.ret = FALSE]

\* variant of Analyzed below whose event carries no peak
Analyzed_NoPeak(x) ==
    [x EXCEPT !.ev.State = "Analyzed",
              !.ba.breath_state = "Cooldown",
              !.ba.cooldown_stable_count = 0]

\* AnalyzeBreath, case BreathAnalyzerState::Analyzed
Analyzed(x) ==
    [x EXCEPT !.ev.State = "Analyzed",
              !.ev.peak_voltage = x.br.peak_volts,
              !.ba.breath_state = "Cooldown",
              !.ba.cooldown_stable_count = 0]

\* baseline_mean + delta_v + k_sigma * baseline_std
Threshold(r, delta_v, k_sigma) ==
    RAdd(RAdd(r.baseline_mean, delta_v), RMul(k_sigma, r.baseline_std))

\* AnalyzeBreath(breathwindow, breathresult, out_event)
AnalyzeBreath(b, breathwindow, breathresult) ==
    LET x0 == [ ba |-> b,
                br |-> [breathresult EXCEPT !.last_window = breathwindow],
                ev |-> BreathEvent,
                ret |-> FALSE ]
        start_threshold ==
            Threshold(x0.br, bcfg.start_delta_v, bcfg.start_k_sigma)
        end_threshold ==
            Threshold(x0.br, bcfg.end_delta_v, bcfg.end_k_sigma)
        ready_threshold ==
            Threshold(x0.br, bcfg.ready_delta_v, bcfg.ready_k_sigma)
    IN  IF breathwindow.window_end_us = 0 THEN x0
        ELSE IF ~b.bWarmedup
        THEN Warmup(UpdateBaseline([x0 EXCEPT !.ba.bFreezebaseline = FALSE],
                                   breathwindow))
        ELSE CASE b.breath_state = "Ready" ->
                    Ready(UpdateBaseline(
                            [x0 EXCEPT !.ba.bFreezebaseline = FALSE,
                                       !.ev.State = "Ready"], breathwindow),
                          breathwindow, start_threshold)
               [] b.breath_state = "Processing" ->
                    Processing([x0 EXCEPT !.ba.bFreezebaseline = TRUE,
                                          !.ev.State = "Processing"],
                               breathwindow, end_threshold)
               [] b.breath_state = "Analyzed" -> Analyzed(x0)
               [] b.breath_state = "Cooldown" ->
                    Cooldown(UpdateBaseline(
                               [x0 EXCEPT !.ba.bFreezebaseline = FALSE,
                                          !.ev.State = "Cooldown"], breathwindow),
                             breathwindow, ready_threshold)
               [] OTHER -> [x0 EXCEPT !.ev.State = "Cooldown"]

(***************************************************************************)
(* processor_types.h: RuntimeProcess                                       *)
(***************************************************************************)
RuntimeProcess ==
    [snapshot_ |-> BreathResult, bHasEvent |-> FALSE, last_event |-> BreathEvent]

\* on_batch, from "if (step.result.window_end_us != 0)" on: the breath
\* analyzer and the processor after it, the StepResult returned (out) and,
\* for the properties, the windows handed to AnalyzeBreath (handed) and
\* what AnalyzeBreath returned (emitted)
OnWindow(b, r, result) ==
    LET got == result.window_end_us # 0
        x   == AnalyzeBreath(b, result, r.snapshot_)
    IN  [ ba  |-> IF got THEN x.ba ELSE b,
          rp  |-> IF got
                     THEN [snapshot_ |-> x.br, bHasEvent |-> TRUE,
                           last_event |-> x.ev]
                     ELSE r,
          out |-> [ action |-> "Continue",
                    event  |-> IF got THEN x.ev.State ELSE "None",
                    result |-> IF got THEN x.br ELSE r.snapshot_ ],
          handed |-> IF got THEN <<result>> ELSE <<>>,
          emitted |-> got /\ x.ret ]

\* on_batch(sample, n): what the Welford analyzer did (w) and what the rest
\* of the call did with the window AnalyzeBatch returned (o)
on_batch(a, cur, b, r, Samples) ==
    Only({ [w |-> w, o |-> OnWindow(b, r, w.last_finalized.result)]
           : w \in {AnalyzeBatch(a, cur, Samples)} })

(***************************************************************************)
(* The runtime flow: the sampler produces timestamped samples, the runner  *)
(* drains them in batches into RuntimeProcess::on_batch.                   *)
(***************************************************************************)
\* timestamp of the first sample, and the steps between later samples
FirstTimes == {0, WindowUs \div 4}
Dts == {1, WindowUs - 1, WindowUs, 3 * WindowUs + WindowUs \div 2}
\* sample values (millivolts)
Volts == {RInt(1000), RInt(1005)}

\* whether a finalized window f = [win, samples] had enough samples and
\* its reported statistics met the stddev and drift thresholds
Qualifies(f) ==
    /\ Len(f.samples) >= cfg.min_window_sample_size
    /\ RLe(f.win.stddev, cfg.stddev_max)
    /\ (~isfinite(f.win.mean_prev)
          \/ RLe(f.win.drift_per_sec, cfg.drift_per_sec_max))
Quals(fins) == [i \in 1 .. Len(fins) |-> Qualifies(fins[i])]
\* the last k elements of s, or all of s when it has fewer
LastUpTo(s, k) == IF Len(s) <= k THEN s ELSE SubSeq(s, Len(s) - k + 1, Len(s))

\* history for the properties.  Of the last on_batch call: the windows it
\* finalized, each with the samples it had accumulated (last), and the
\* windows it handed to AnalyzeBreath (handed_last).  Of the whole run: the
\* numbers of windows finalized and handed (nfinal, nhanded), the first
\* window finalized (first_win), whether each of the MaxReq - 1 windows
\* before those of last qualified (prevq), the first and the last
\* timestamp fed to AnalyzeSample and their number (an_first, an_last,
\* an_count), the samples of the window being accumulated (cur).  Of the
\* breath analyzer: the windows it took (nwin), the stable ones among them
\* (stable_fed), the value of stable_fed when it left Warmup (ready_at, 0
\* before), the start of the next window fed to it directly (btime), what
\* AnalyzeBreath returned for the last window (ret), the largest window
\* mean since the window that started Processing (maxmean), the number of
\* consecutive windows in Cooldown that were stable with a mean at or below
\* the ready threshold (cq).  Of the last on_batch call: the event of the
\* StepResult it returned (event)
HistInit ==
    [ last |-> <<>>, handed_last |-> <<>>, nfinal |-> 0, nhanded |-> 0,
      first_win |-> <<>>, prevq |-> <<>>,
      an_first |-> -1, an_last |-> -1, an_count |-> 0, cur |-> <<>>,
      nwin |-> 0, stable_fed |-> 0, ready_at |-> 0, btime |-> 0,
      ret |-> FALSE, maxmean |-> R0, cq |-> 0, event |-> "None" ]

\* the Welford analyzer's part of the history after an on_batch call that
\* fed the timestamps ts, finalized fins and left the samples cur
WelfordHist(h, ts, fins, cur) ==
    [h EXCEPT
       !.last = fins,
       !.nfinal = @ + Len(fins),
       !.first_win = IF @ = <<>> /\ fins # <<>>
                        THEN <<fins[1].win.window_start_us,
                               fins[1].win.window_end_us>>
                        ELSE @,
       !.prevq = LastUpTo(@ \o Quals(h.last), MaxReq - 1),
       !.an_first = IF @ = -1 /\ ts # <<>> THEN ts[1] ELSE @,
       !.an_last = IF ts # <<>> THEN ts[Len(ts)] ELSE @,
       !.an_count = @ + Len(ts),
       !.cur = cur]

\* the breath analyzer's part of the history after the analyzer b, with
\* the snapshot r, took window w and OnWindow gave o
BreathHist(h, b, r, o, w) ==
    LET sf == h.stable_fed + (IF w.stable THEN 1 ELSE 0)
        q  == w.stable /\ RLe(w.mean, Threshold(r, bcfg.ready_delta_v,
                                                 bcfg.ready_k_sigma))
    IN  [h EXCEPT !.nwin = @ + 1,
                  !.stable_fed = sf,
                  !.ready_at = IF b.breath_state = "Warmup"
                                    /\ o.ba.breath_state # "Warmup"
                                  THEN sf ELSE @,
                  !.ret = o.emitted,
                  !.maxmean = IF b.breath_state = "Ready"
                                   /\ o.ba.breath_state = "Processing"
                                 THEN w.mean
                              ELSE IF b.breath_state = "Processing"
                                 THEN RMax(@, w.mean)
                              ELSE R0,
                  !.cq = IF b.breath_state = "Cooldown" /\ q THEN @ + 1 ELSE 0]

(***************************************************************************)
(* sampler.h: Sampler; process_runner.h: ProcessRunner                     *)
(***************************************************************************)
\* ProcessRunner over a processor of the given kind, before run() is
\* called.  pc is the position of run(); clock is steady_clock::now() -
\* start; last_ is CalibrationProcess::last_; result is what run()
\* returned (<<>> before) and why tells through which return statement.
\* For the properties, of the current iteration of the loop: the StepResult
\* of on_batch (cur_step, <<>> before), what the iteration did, in order
\* (trace); of the whole run: the events on_batch recorded and the events
\* the handler popped (recorded, delivered), the number of on_event calls
\* (callbacks), the drains done after g_running was cleared (after_stop);
\* of the runner's life: the number of run() calls (runs)
ProcessRunner(kind) ==
    [ kind |-> kind, pc |-> "start", g_running |-> TRUE, clock |-> 0,
      last_ |-> WindowResult, result |-> <<>>, why |-> "none",
      cur_step |-> <<>>, trace |-> <<>>, recorded |-> <<>>,
      delivered |-> <<>>, callbacks |-> 0, after_stop |-> 0, runs |-> 0 ]

\* Sampler as constructed.  thread is "none" (not joinable), "running" or
\* "exited" (joinable); spc is the position of run_sampler, cpc_ that of
\* the thread calling start_sampler / stop_sampler.  For the properties:
\* the ticks of the current thread that ended while running was false
\* (late_ticks), the number of stop_sampler calls that returned, counted
\* up to MaxStops (stops).  next is run_sampler's local deadline, counted
\* from the value it is initialized with; tick numbers the passes of its
\* loop.  terminated: std::terminate was called, by the assignment of a new
\* std::thread to a thread member that is still joinable
Sampler ==
    [ running |-> FALSE, thread |-> "none", spc |-> "none", cpc_ |-> "idle",
      dropped_ |-> 0, late_ticks |-> 0, stops |-> 0, next |-> 0, tick |-> 0,
      terminated |-> FALSE ]

\* led_controller.h: LedWorker as constructed, its thread waiting in
\* ThreadRun.  wpc is the position of ThreadRun and command, thread_state,
\* last_applied_state are its locals; leds is the set of LEDs that are lit;
\* hpc is the position of the on_breath handler inside the event it is
\* handling (event).  For the properties: the number of Apply_Command calls
\* (submitted; a command carries its number as id), the ids of the commands
\* Run_Command was called with, in order (executed), the number of events
\* the handler has been called with (handled)
LedWorker ==
    [ current_state |-> "Idle", state_dirty |-> FALSE,
      current_command |-> [type |-> "Clear", led_mask |-> {}, id |-> 0],
      pending_command |-> FALSE, cancel_command |-> FALSE, bStop |-> FALSE,
      wpc |-> "wait", last_applied_state |-> "Idle",
      command |-> [type |-> "Clear", led_mask |-> {}, id |-> 0],
      thread_state |-> "Idle", leds |-> {},
      hpc |-> "idle", event |-> "None",
      submitted |-> 0, executed |-> <<>>, handled |-> 0 ]

CtlInit ==
    /\ run = ProcessRunner("Runtime")
    /\ smp = Sampler

AnaInit ==
    /\ cfg = Analyzer_Config(1)
    /\ wa = WelfordAnalyzer
    /\ bcfg = BreathAnalyzer_Config(1, 1, Min_Blowtime_Seconds)
    /\ ba = BreathAnalyzer
    /\ rp = RuntimeProcess
    /\ pending = <<>> /\ now = 0 /\ produced = 0
    /\ hist = HistInit
    /\ led = LedWorker

\* Ads1115_Source::sample_value stamps a sample and the sampler pushes it
RtSample(t, v) ==
    /\ produced < MaxSamples
    /\ Len(pending) < MaxPending
    /\ IF produced = 0 THEN t \in FirstTimes ELSE t - now \in Dts
    /\ pending' = Append(pending, [t_us |-> t, volts |-> v])
    /\ now' = t
    /\ produced' = produced + 1
    /\ UNCHANGED <<cfg, wa, bcfg, ba, rp, hist, led>>

\* one iteration of ProcessRunner::run with a non-empty drain:
\* pop_batch(batch.data(), max_batch), then processor.on_batch(batch, n)
RtBatch ==
    /\ pending # <<>>
    /\ \E n \in {IF Len(pending) < MaxBatch THEN Len(pending) ELSE MaxBatch} :
       \E Samples \in {SubSeq(pending, 1, n)} :
       \E r \in {on_batch(wa, hist.cur, ba, rp, Samples)} :
       LET h == [WelfordHist(hist, [i \in 1 .. r.w.fed |-> Samples[i].t_us],
                             r.w.fins, r.w.cur)
                   EXCEPT !.handed_last = r.o.handed,
                          !.nhanded = @ + Len(r.o.handed),
                          !.event = r.o.out.event]
       IN  /\ wa' = r.w.wa
           /\ ba' = r.o.ba
           /\ rp' = r.o.rp
           /\ pending' = SubSeq(pending, n + 1, Len(pending))
           /\ hist' = IF r.o.handed = <<>> THEN h
                      ELSE BreathHist(h, ba, rp.snapshot_, r.o, r.o.handed[1])
    /\ UNCHANGED <<cfg, bcfg, now, produced, led>>

RuntimeInit ==
    /\ RingInit
    /\ CtlInit
    /\ cfg \in {[Analyzer_Config(req) EXCEPT !.min_window_sample_size = m] :
                   req \in 1 .. MaxReq,
                   m \in MinWindowSamples .. MinWindowSamples + 1}
    /\ wa = WelfordAnalyzer
    /\ bcfg = BreathAnalyzer_Config(1, 1, Min_Blowtime_Seconds)
    /\ ba = BreathAnalyzer
    /\ rp = RuntimeProcess
    /\ pending = <<>> /\ now = 0 /\ produced = 0
    /\ hist = HistInit
    /\ led = LedWorker

RuntimeNext ==
    \/ \E t \in FirstTimes \cup {now + d : d \in Dts} : \E v \in Volts :
          RtSample(t, v) /\ UNCHANGED <<ringAll, ctlVars>>
    \/ RtBatch /\ UNCHANGED <<ringAll, ctlVars>>

(***************************************************************************)
(* The breath state machine on its own, fed any sequence of windows.       *)
(***************************************************************************)
\* window means and standard deviations (millivolts), steps between windows
Means == {RInt(1000), RInt(1015), RInt(1100)}
Stddevs == {RInt(1)}
Gaps == {0, 3 * WindowUs}

\* a finalized window is handed to the breath analyzer as on_batch does
BrWindow(stable, mean, stddev, gap) ==
    /\ hist.nwin < MaxWindows
    /\ LET w == [ stable |-> stable, mean |-> mean, stddev |-> stddev,
                  mean_prev |-> R0, drift_per_sec |-> R0,
                  window_start_us |-> hist.btime + gap,
                  window_end_us |-> hist.btime + gap + cfg.window_micro ]
           o == OnWindow(ba, rp, w)
       IN  /\ ba' = o.ba
           /\ rp' = o.rp
           /\ hist' = [BreathHist(hist, ba, rp.snapshot_, o, w) EXCEPT
                          !.btime = w.window_end_us,
                          !.handed_last = o.handed,
                          !.nhanded = @ + Len(o.handed),
                          !.event = o.out.event]
    /\ UNCHANGED <<cfg, wa, bcfg, pending, now, produced, led>>

BreathInit ==
    /\ RingInit
    /\ CtlInit
    /\ cfg = Analyzer_Config(1)
    /\ wa = WelfordAnalyzer
    /\ bcfg \in {BreathAnalyzer_Config(warm, 1, Min_Blowtime_Seconds) :
                    warm \in 1 .. MaxWarmup}
                 \cup {BreathAnalyzer_Config(1, cool, 3 * WindowUs) :
                          cool \in 1 .. MaxCooldown}
    /\ ba = BreathAnalyzer
    /\ rp = RuntimeProcess
    /\ pending = <<>> /\ now = 0 /\ produced = 0
    /\ hist \in {[HistInit EXCEPT !.btime = t] : t \in FirstTimes}
    /\ led = LedWorker

BreathNext ==
    \E stable \in BOOLEAN, mean \in Means, stddev \in Stddevs, gap \in Gaps :
        BrWindow(stable, mean, stddev, gap) /\ UNCHANGED <<ringAll, ctlVars>>

(***************************************************************************)
(* process_runner.h: ProcessRunner::run over CalibrationProcess or         *)
(* RuntimeProcess, beside a sampler that stamps and pushes samples.        *)
(***************************************************************************)
Consumer_Config ==
    [ consumer_idle_sleep |-> IdleSleep, consumer_tick_sleep |-> TickSleep,
      Timeout |-> RunTimeout, max_batch |-> MaxBatch ]

\* bEnableTimeout<Processor>(): the processor's member, true when absent
bEnableTimeout(kind) == IF kind = "Runtime" THEN FALSE ELSE TRUE

\* processor.result()
processor_result(kind, last, r) ==
    IF kind = "Calibration" THEN last ELSE r.snapshot_

\* CalibrationProcess::on_batch(sample, n): what the Welford analyzer did
\* (w), last_ after the call and the StepResult returned (out)
Calibration_on_batch(a, cur, last, Samples) ==
    Only({ [ w |-> w,
             last_ |-> IF w.last_finalized.result.window_end_us # 0
                          THEN w.last_finalized.result ELSE last,
             out |-> IF w.last_finalized.result.stable
                        THEN [w.last_finalized EXCEPT !.action = "Done"]
                        ELSE w.last_finalized ]
           : w \in {AnalyzeBatch(a, cur, Samples)} })

\* RuntimeProcess::pop_breath_event(out): the processor after the call, the
\* caller's event and the value returned
pop_breath_event_M(r, out) == [rp |-> r, out |-> out, ret |-> FALSE]
pop_breath_event(r, out) ==
    IF ~r.bHasEvent
       THEN [rp |-> r, out |-> out, ret |-> FALSE]
       ELSE [rp |-> [r EXCEPT !.bHasEvent = FALSE], out |-> r.last_event,
             ret |-> TRUE]

\* the on_breath handler of StartRuntime: pops events until
\* pop_breath_event returns false; got lists the events it popped
RECURSIVE on_breath(_, _, _)
on_breath(r, event, got) ==
    Only({ IF p.ret THEN on_breath(p.rp, p.out, Append(got, p.out))
                    ELSE [rp |-> p.rp, got |-> got]
           : p \in {pop_breath_event(r, event)} })

\* steady_clock::now() - start after d more units; it only matters whether
\* it has reached the timeout
Elapse(d) ==
    IF run.clock + d >= RunTimeout THEN RunTimeout ELSE run.clock + d
\* sleep_for(d) returns after d or later
Sleeps(d) == {d, d + 1}

\* the first sample is stamped a quarter window in; later ones follow at
\* the window period or after a stall of three and a half windows
RunFirstTimes == {WindowUs \div 4}
RunDts == {WindowUs, 3 * WindowUs + WindowUs \div 2}

\* the sampling thread, between start_sampler and the return of run()
RunSample(t, v) ==
    /\ smp.thread = "running"
    /\ run.pc \notin {"start", "returned"}
    /\ IF produced = 0 THEN t \in RunFirstTimes ELSE t - now \in RunDts
    /\ RtSample(t, v)
    /\ UNCHANGED <<run, smp>>

\* something outside run() clears g_running
Stop ==
    /\ run.g_running
    /\ run.pc # "returned"
    /\ run' = [run EXCEPT !.g_running = FALSE]
    /\ UNCHANGED <<anaVars, smp>>

\* run(): sampler.start_sampler(); start = steady_clock::now()
RunStart ==
    /\ run.pc = "start"
    /\ run' = [run EXCEPT !.pc = "head", !.clock = 0]
    /\ smp' = [smp EXCEPT !.running = TRUE, !.thread = "running",
                          !.spc = "top"]
    /\ UNCHANGED anaVars

\* while (g_running.load()) ... ; return processor.result()
RunHead_M ==
    /\ run.pc = "head"
    /\ run' = [run EXCEPT !.pc = "drain", !.cur_step = <<>>, !.trace = <<>>]
    /\ UNCHANGED <<anaVars, smp>>
RunHead ==
    /\ run.pc = "head"
    /\ run' = IF run.g_running
                 THEN [run EXCEPT !.pc = "drain", !.cur_step = <<>>,
                                  !.trace = <<>>]
                 ELSE [run EXCEPT !.pc = "returned", !.why = "signal",
                                  !.trace = <<"return">>,
                                  !.result = processor_result(run.kind,
                                                              run.last_, rp)]
    /\ UNCHANGED <<anaVars, smp>>

\* pop_batch gave no sample: sleep, test the timeout, continue
RunIdle_M ==
    /\ run.pc = "drain"
    /\ pending = <<>>
    /\ \E d \in Sleeps(Consumer_Config.consumer_idle_sleep) :
         run' = [run EXCEPT
                   !.clock = Elapse(d),
                   !.trace = <<"pop_batch", "sleep">>,
                   !.after_stop = IF run.g_running THEN @ ELSE @ + 1,
                   !.pc = "head"]
    /\ UNCHANGED <<anaVars, smp>>
RunIdle ==
    /\ run.pc = "drain"
    /\ pending = <<>>
    /\ \E d \in Sleeps(Consumer_Config.consumer_idle_sleep) :
       LET out == bEnableTimeout(run.kind)
                    /\ Elapse(d) >= Consumer_Config.Timeout
       IN  run' = [run EXCEPT
                     !.clock = Elapse(d),
                     !.trace = <<"pop_batch", "sleep">>
                                 \o (IF out THEN <<"return">> ELSE <<>>),
                     !.after_stop = IF run.g_running THEN @ ELSE @ + 1,
                     !.pc = IF out THEN "returned" ELSE "head",
                     !.why = IF out THEN "timeout" ELSE @,
                     !.result = IF out
                                   THEN processor_result(run.kind, run.last_,
                                                         rp)
                                   ELSE @]
    /\ UNCHANGED <<anaVars, smp>>

\* pop_batch gave samples and the calibration processor takes them
RunCalBatch ==
    /\ run.pc = "drain"
    /\ run.kind = "Calibration"
    /\ pending # <<>>
    /\ \E n \in {IF Len(pending) < Consumer_Config.max_batch
                    THEN Len(pending) ELSE Consumer_Config.max_batch} :
       \E Samples \in {SubSeq(pending, 1, n)} :
       \E r \in {Calibration_on_batch(wa, hist.cur, run.last_, Samples)} :
           /\ wa' = r.w.wa
           /\ pending' = SubSeq(pending, n + 1, Len(pending))
           /\ hist' = WelfordHist(hist,
                                  [i \in 1 .. r.w.fed |-> Samples[i].t_us],
                                  r.w.fins, r.w.cur)
           /\ run' = [run EXCEPT
                        !.pc = "event",
                        !.last_ = r.last_,
                        !.cur_step = r.out,
                        !.trace = <<"pop_batch", "on_batch">>,
                        !.after_stop = IF run.g_running THEN @ ELSE @ + 1]
    /\ UNCHANGED <<cfg, bcfg, ba, rp, now, produced, smp, led>>

\* pop_batch gave samples and the runtime processor takes them
RunRtBatch ==
    /\ run.pc = "drain"
    /\ run.kind = "Runtime"
    /\ RtBatch
    /\ run' = [run EXCEPT
                 !.pc = "event",
                 !.cur_step = [action |-> "Continue", event |-> hist'.event,
                               result |-> rp'.snapshot_],
                 !.trace = <<"pop_batch", "on_batch">>,
                 !.recorded = IF hist'.handed_last # <<>>
                                 THEN Append(@, rp'.last_event) ELSE @,
                 !.after_stop = IF run.g_running THEN @ ELSE @ + 1]
    /\ UNCHANGED smp

\* if (cur_step.event != StateEvent::None) on_process_event(processor):
\* StartCalibration passes a handler that does nothing, StartRuntime
\* passes on_breath
RunEvent_M ==
    /\ run.pc = "event"
    /\ run' = [run EXCEPT !.pc = "action", !.callbacks = @ + 1,
                          !.trace = Append(@, "on_event")]
    /\ UNCHANGED <<anaVars, smp>>
RunEvent ==
    /\ run.pc = "event"
    /\ IF run.cur_step.event # "None"
          THEN \E h \in {IF run.kind = "Runtime"
                            THEN on_breath(rp, BreathEvent, <<>>)
                            ELSE [rp |-> rp, got |-> <<>>]} :
                 /\ rp' = h.rp
                 /\ run' = [run EXCEPT !.pc = "action",
                                       !.callbacks = @ + 1,
                                       !.delivered = @ \o h.got,
                                       !.trace = Append(@, "on_event")]
          ELSE /\ rp' = rp
               /\ run' = [run EXCEPT !.pc = "action"]
    /\ UNCHANGED <<cfg, wa, bcfg, ba, pending, now, produced, hist, smp, led>>

\* switch (cur_step.action), then the tick sleep and the timeout test
RunAction ==
    /\ run.pc = "action"
    /\ IF run.cur_step.action \in {"Done", "Abort"}
          THEN run' = [run EXCEPT
                         !.pc = "returned", !.why = "done",
                         !.trace = Append(@, "return"),
                         !.result = processor_result(run.kind, run.last_, rp)]
          ELSE \E d \in Sleeps(Consumer_Config.consumer_tick_sleep) :
               LET out == bEnableTimeout(run.kind)
                            /\ Elapse(d) >= Consumer_Config.Timeout
               IN  run' = [run EXCEPT
                             !.clock = Elapse(d),
                             !.trace = Append(@, "sleep")
                                         \o (IF out THEN <<"return">>
                                                    ELSE <<>>),
                             !.pc = IF out THEN "returned" ELSE "head",
                             !.why = IF out THEN "timeout" ELSE @,
                             !.result = IF out
                                           THEN processor_result(run.kind,
                                                                 run.last_, rp)
                                           ELSE @]
    /\ UNCHANGED <<anaVars, smp>>

RunnerInit ==
    /\ RingInit
    /\ run \in {ProcessRunner(kind) : kind \in {"Calibration", "Runtime"}}
    /\ smp = Sampler
    /\ cfg \in {Analyzer_Config(req) : req \in 1 .. MaxReq}
    /\ wa = WelfordAnalyzer
    /\ bcfg = BreathAnalyzer_Config(1, 1, Min_Blowtime_Seconds)
    /\ ba = BreathAnalyzer
    /\ rp = RuntimeProcess
    /\ pending = <<>> /\ now = 0 /\ produced = 0
    /\ hist = HistInit
    /\ led = LedWorker

RunnerNext ==
    \/ \E t \in RunFirstTimes \cup {now + d : d \in RunDts} : \E v \in Volts :
          RunSample(t, v) /\ UNCHANGED ringAll
    \/ Stop /\ UNCHANGED ringAll
    \/ RunStart /\ UNCHANGED ringAll
    \/ RunHead /\ UNCHANGED ringAll
    \/ RunIdle /\ UNCHANGED ringAll
    \/ RunCalBatch /\ UNCHANGED ringAll
    \/ RunRtBatch /\ UNCHANGED ringAll
    \/ RunEvent /\ UNCHANGED ringAll
    \/ RunAction /\ UNCHANGED ringAll

(***************************************************************************)
(* sampler.h: Sampler.  One thread calls start_sampler and stop_sampler    *)
(* (the destructor calls stop_sampler too); the thread it starts runs      *)
(* run_sampler, whose push_overwrite goes step by step through the ring.   *)
(***************************************************************************)
\* start_sampler(): running.store(true); thread = std::thread(run_sampler)
start_sampler ==
    /\ smp.cpc_ = "idle"
    /\ smp.thread = "none"
    /\ smp' = [smp EXCEPT !.running = TRUE, !.thread = "running",
                          !.spc = "top", !.late_ticks = 0,
                          !.next = 0, !.tick = 0]
    /\ UNCHANGED ringAll

\* stop_sampler(): running.store(false); if (thread.joinable()) ...
StopStore ==
    /\ smp.cpc_ = "idle"
    /\ smp' = [smp EXCEPT
                 !.running = FALSE,
                 !.cpc_ = IF smp.thread # "none" THEN "join" ELSE "idle",
                 !.stops = IF smp.thread = "none" /\ @ < MaxStops
                              THEN @ + 1 ELSE @]
    /\ UNCHANGED ringAll

\* ... thread.join() returns once run_sampler has returned
StopJoin ==
    /\ smp.cpc_ = "join"
    /\ smp.thread = "exited"
    /\ smp' = [smp EXCEPT !.thread = "none", !.spc = "none",
                          !.cpc_ = "idle",
                          !.stops = IF @ < MaxStops THEN @ + 1 ELSE @]
    /\ UNCHANGED ringAll

\* run_sampler: while (running.load(relaxed)); falling out of the loop
\* ends the thread
SmpTop_M ==
    /\ smp.spc = "top"
    /\ smp' = [smp EXCEPT !.spc = "tick"]
    /\ UNCHANGED ringAll
\* ... next += period
SmpTop ==
    /\ smp.spc = "top"
    /\ smp.running => smp.tick < MaxTicks
    /\ smp' = IF smp.running
                 THEN [smp EXCEPT !.spc = "tick",
                                  !.next = @ + SamplePeriod,
                                  !.tick = @ + 1]
                 ELSE [smp EXCEPT !.spc = "exited", !.thread = "exited"]
    /\ UNCHANGED ringAll

\* DataSource.sample_value(sample) failed: nothing is pushed
SmpNoSample_M ==
    /\ smp.spc = "tick"
    /\ smp' = [smp EXCEPT !.spc = "sleep",
                          !.next = @ + SamplePeriod,
                          !.late_ticks = IF smp.running THEN @ ELSE @ + 1]
    /\ UNCHANGED ringAll
SmpNoSample ==
    /\ smp.spc = "tick"
    /\ smp' = [smp EXCEPT !.spc = "sleep",
                          !.late_ticks = IF smp.running THEN @ ELSE @ + 1]
    /\ UNCHANGED ringAll

\* DataSource.sample_value(sample) gave a sample: ring.push_overwrite(sample)
\* is called
SmpPushCall ==
    /\ smp.spc = "tick"
    /\ PushCall
    /\ smp' = [smp EXCEPT !.spc = "push"]
    /\ UNCHANGED seqVars

\* the steps of push_overwrite after the call
SmpPushStep ==
    /\ smp.spc = "push"
    /\ \/ PushCheckFull
       \/ PushLoadTail
       \/ PushStoreTail
       \/ PushWrite1
       \/ PushWrite2
       \/ PushPublish
    /\ UNCHANGED <<seqVars, smp>>

\* if (!ring.push_overwrite(sample)) dropped_.fetch_add(1, relaxed)
SmpPushed_M ==
    /\ smp.spc = "push"
    /\ ppc = "idle"
    /\ smp' = [smp EXCEPT !.spc = "sleep",
                          !.dropped_ = @ + 1,
                          !.late_ticks = IF smp.running THEN @ ELSE @ + 1]
    /\ UNCHANGED ringAll
SmpPushed ==
    /\ smp.spc = "push"
    /\ ppc = "idle"
    /\ smp' = [smp EXCEPT !.spc = "sleep",
                          !.dropped_ = IF p_ret THEN @ ELSE @ + 1,
                          !.late_ticks = IF smp.running THEN @ ELSE @ + 1]
    /\ UNCHANGED ringAll

\* std::this_thread::sleep_until(next)
SmpSleep ==
    /\ smp.spc = "sleep"
    /\ smp' = [smp EXCEPT !.spc = "top"]
    /\ UNCHANGED ringAll

SamplerNext ==
    \/ start_sampler /\ UNCHANGED <<anaVars, run>>
    \/ StopStore /\ UNCHANGED <<anaVars, run>>
    \/ StopJoin /\ UNCHANGED <<anaVars, run>>
    \/ SmpTop /\ UNCHANGED <<anaVars, run>>
    \/ SmpNoSample /\ UNCHANGED <<anaVars, run>>
    \/ SmpPushCall /\ UNCHANGED <<anaVars, run>>
    \/ SmpPushStep /\ UNCHANGED <<anaVars, run>>
    \/ SmpPushed /\ UNCHANGED <<anaVars, run>>
    \/ SmpSleep /\ UNCHANGED <<anaVars, run>>

(***************************************************************************)
(* The sampler beside the consumer loop: run_sampler pushes while          *)
(* ProcessRunner::run drains the same ring with pop_batch.  drained lists  *)
(* every sample pop has handed over.                                       *)
(***************************************************************************)
DrainNext ==
    \/ start_sampler /\ UNCHANGED <<anaVars, run>>
    \/ SmpTop /\ UNCHANGED <<anaVars, run>>
    \/ SmpNoSample /\ UNCHANGED <<anaVars, run>>
    \/ SmpPushCall /\ UNCHANGED <<anaVars, run>>
    \/ SmpPushStep /\ UNCHANGED <<anaVars, run>>
    \/ SmpPushed /\ UNCHANGED <<anaVars, run>>
    \/ SmpSleep /\ UNCHANGED <<anaVars, run>>
    \/ /\ pop_batch
       /\ drained' = IF cpc = "store_tail" THEN Append(drained, c_out)
                                           ELSE drained
       /\ UNCHANGED <<phase, round, rets, anaVars, ctlVars>>

(***************************************************************************)
(* sampler.h: the life of one ProcessRunner over its Sampler: run() any    *)
(* number of times, then ~ProcessRunner.  run() is taken from its first    *)
(* statement to any of its return statements; the sampling thread runs     *)
(* beside it step by step.                                                 *)
(***************************************************************************)
\* run(): sampler.start_sampler(), that is running.store(true); thread =
\* std::thread(...).  The assignment ends the program through
\* std::terminate when thread is joinable.
LifeRun ==
    /\ run.pc \in {"start", "returned"}
    /\ run.runs < MaxRuns
    /\ smp.cpc_ = "idle"
    /\ run' = [run EXCEPT !.pc = "head", !.runs = @ + 1, !.why = "none"]
    /\ smp' = IF smp.thread = "none"
                 THEN [smp EXCEPT !.running = TRUE, !.thread = "running",
                                  !.spc = "top", !.late_ticks = 0,
                                  !.next = 0, !.tick = 0]
                 ELSE [smp EXCEPT !.running = TRUE, !.terminated = TRUE]
    /\ UNCHANGED <<ringAll, anaVars>>

\* run() from its loop to one of its return statements: the idle or the
\* tick timeout, Done or Abort, g_running cleared
LifeReturn(why) ==
    /\ run.pc = "head"
    /\ run' = [run EXCEPT !.pc = "returned", !.why = why]
    /\ UNCHANGED <<ringAll, anaVars, smp>>

\* ~ProcessRunner(): sampler.stop_sampler(), up to the join
LifeDestroy ==
    /\ run.pc \in {"start", "returned"}
    /\ StopStore
    /\ run' = [run EXCEPT !.pc = "destroyed"]
    /\ UNCHANGED anaVars

LifeNext ==
    \/ ~smp.terminated /\ LifeRun
    \/ ~smp.terminated /\ \E why \in {"timeout", "done", "signal"} : LifeReturn(why)
    \/ ~smp.terminated /\ LifeDestroy
    \/ ~smp.terminated /\ StopJoin /\ UNCHANGED <<anaVars, run>>
    \/ ~smp.terminated /\ SmpTop /\ UNCHANGED <<anaVars, run>>
    \/ ~smp.terminated /\ SmpNoSample /\ UNCHANGED <<anaVars, run>>
    \/ ~smp.terminated /\ SmpPushCall /\ UNCHANGED <<anaVars, run>>
    \/ ~smp.terminated /\ SmpPushStep /\ UNCHANGED <<anaVars, run>>
    \/ ~smp.terminated /\ SmpPushed /\ UNCHANGED <<anaVars, run>>
    \/ ~smp.terminated /\ SmpSleep /\ UNCHANGED <<anaVars, run>>

(***************************************************************************)
(* led_controller.h: LedWorker.  The consumer thread calls SetState and    *)
(* Apply_Command from the on_breath handler of StartRuntime; the worker    *)
(* thread runs ThreadRun.  Every block under mutex_ is one step.           *)
(***************************************************************************)
AllLeds == {"Blue", "Green", "Yellow", "Orange", "Red"}

\* SetState(state)
SetState(l, state) == [l EXCEPT !.current_state = state, !.state_dirty = TRUE]

\* Apply_Command(cmd)
Apply_Command(l, cmd) ==
    [l EXCEPT !.current_command = [cmd EXCEPT !.id = l.submitted + 1],
              !.pending_command = TRUE,
              !.submitted = @ + 1]

\* the command on_breath submits for an event: BlinkOne (of the default
\* led, Blue) for Warmup and Cooldown, Mask M_Blue for Ready, BlinkAll for
\* Processing, DriveBac for Analyzed (a bac below 0.02: M_Green)
EventCommand(e) ==
    CASE e = "Ready" -> [type |-> "Mask", led_mask |-> {"Blue"}, id |-> 0]
      [] e = "Processing" -> [type |-> "BlinkAll", led_mask |-> {}, id |-> 0]
      [] e = "Analyzed" -> [type |-> "DriveBac", led_mask |-> {"Green"}, id |-> 0]
      [] OTHER -> [type |-> "BlinkOne", led_mask |-> {}, id |-> 0]

\* Run_Command(cmd), from its call to its return: the LEDs it leaves lit.
\* cancel_command is never set, so the blinks run to their end, the led off
Run_Command(leds, cmd) ==
    CASE cmd.type = "Clear" -> {}
      [] cmd.type = "Mask" -> cmd.led_mask
      [] cmd.type = "BlinkOne" -> leds \ {"Blue"}
      [] cmd.type = "BlinkAll" -> {}
      [] cmd.type = "DriveBac" -> cmd.led_mask

\* ApplyState(in_state, last_applied_state)
ApplyState(l, in_state) ==
    IF in_state = l.last_applied_state THEN l
    ELSE [l EXCEPT
            !.last_applied_state = in_state,
            !.leds = CASE in_state \in {"Warmup", "Ready"} -> {"Green"}
                       [] in_state = "Processing" -> AllLeds \ {"Blue"}
                       [] in_state = "Cooldown" -> {"Blue"}
                       [] OTHER -> {}]

\* on_breath, one event popped: SetState(...) for Warmup, Ready, Processing
\* and Cooldown, with Apply_Command still to come; Apply_Command(DriveBac)
\* alone for Analyzed
HandleEvent(e) ==
    /\ led.hpc = "idle"
    /\ ~led.bStop
    /\ led.handled < MaxEvents
    /\ led' = IF e = "Analyzed"
                 THEN [Apply_Command(led, EventCommand(e)) EXCEPT
                         !.event = e, !.handled = @ + 1]
                 ELSE [SetState(led, e) EXCEPT
                         !.event = e, !.handled = @ + 1, !.hpc = "cmd"]
    /\ UNCHANGED <<cfg, wa, bcfg, ba, rp, pending, now, produced, hist>>

\* ... the Apply_Command that follows SetState
HandleCommand ==
    /\ led.hpc = "cmd"
    /\ led' = [Apply_Command(led, EventCommand(led.event)) EXCEPT !.hpc = "idle"]
    /\ UNCHANGED <<cfg, wa, bcfg, ba, rp, pending, now, produced, hist>>

\* ThreadRun: conditional_V.wait(...) and the block under the lock
ThreadWait ==
    /\ led.wpc = "wait"
    /\ led.bStop \/ led.pending_command \/ led.state_dirty
    /\ led' = IF led.bStop THEN [led EXCEPT !.wpc = "stopped"]
              ELSE IF led.pending_command
                 THEN [led EXCEPT !.command = led.current_command,
                                  !.pending_command = FALSE,
                                  !.cancel_command = FALSE,
                                  !.wpc = "command"]
                 ELSE [led EXCEPT !.thread_state = led.current_state,
                                  !.state_dirty = FALSE,
                                  !.wpc = "state"]
    /\ UNCHANGED <<cfg, wa, bcfg, ba, rp, pending, now, produced, hist>>

\* if (do_command) Run_Command(command)
ThreadCommand ==
    /\ led.wpc = "command"
    /\ led' = [led EXCEPT !.leds = Run_Command(@, led.command),
                          !.executed = Append(@, led.command.id),
                          !.wpc = "stomp"]
    /\ UNCHANGED <<cfg, wa, bcfg, ba, rp, pending, now, produced, hist>>

\* ... stomp_state = current_state; ApplyState(stomp_state, ...)
ThreadStomp ==
    /\ led.wpc = "stomp"
    /\ led' = [ApplyState(led, led.current_state) EXCEPT !.wpc = "wait"]
    /\ UNCHANGED <<cfg, wa, bcfg, ba, rp, pending, now, produced, hist>>

\* else if (do_state) ApplyState(thread_state, last_applied_state)
ThreadState ==
    /\ led.wpc = "state"
    /\ led' = [ApplyState(led, led.thread_state) EXCEPT !.wpc = "wait"]
    /\ UNCHANGED <<cfg, wa, bcfg, ba, rp, pending, now, produced, hist>>

\* ~LedWorker(): bStop = true; notify_one()
LedDestroy ==
    /\ led.hpc = "idle"
    /\ ~led.bStop
    /\ led' = [led EXCEPT !.bStop = TRUE, !.hpc = "join"]
    /\ UNCHANGED <<cfg, wa, bcfg, ba, rp, pending, now, produced, hist>>

\* ... led_thread.join(); led_ctrl.Clear()
LedJoin ==
    /\ led.hpc = "join"
    /\ led.wpc = "stopped"
    /\ led' = [led EXCEPT !.hpc = "destroyed", !.leds = {}]
    /\ UNCHANGED <<cfg, wa, bcfg, ba, rp, pending, now, produced, hist>>

LedNext ==
    \/ \E e \in {"Warmup", "Ready", "Processing", "Analyzed", "Cooldown"} :
          HandleEvent(e) /\ UNCHANGED <<ringAll, ctlVars>>
    \/ HandleCommand /\ UNCHANGED <<ringAll, ctlVars>>
    \/ ThreadWait /\ UNCHANGED <<ringAll, ctlVars>>
    \/ ThreadCommand /\ UNCHANGED <<ringAll, ctlVars>>
    \/ ThreadStomp /\ UNCHANGED <<ringAll, ctlVars>>
    \/ ThreadState /\ UNCHANGED <<ringAll, ctlVars>>
    \/ LedDestroy /\ UNCHANGED <<ringAll, ctlVars>>
    \/ LedJoin /\ UNCHANGED <<ringAll, ctlVars>>

(***************************************************************************)
(* WelfordStats on its own: any sequence of doubles pushed after a reset.  *)
(***************************************************************************)
\* the values pushed: zero, +-DBL_MAX and +-DBL_MAX / 2.  A sum or difference
\* of two of them is either exact or beyond DBL_MAX by far more than half an
\* ulp, so Ovf decides as the hardware does.
WfValues == {RInt(-DBL_MAX), RInt(-(DBL_MAX \div 2)), R0,
             RInt(DBL_MAX \div 2), RInt(DBL_MAX)}

\* WfS.push(value); hist.cur lists the values pushed since the reset
WfPush(v) ==
    /\ Len(hist.cur) < MaxSeq
    /\ wa' = [wa EXCEPT !.WfS = WfS_push(@, v)]
    /\ hist' = [hist EXCEPT !.cur = Append(@, v)]
    /\ UNCHANGED <<cfg, bcfg, ba, rp, pending, now, produced, led>>

\* WfS.reset()
WfReset ==
    /\ hist.cur # <<>>
    /\ wa' = [wa EXCEPT !.WfS = WelfordStats]
    /\ hist' = [hist EXCEPT !.cur = <<>>]
    /\ UNCHANGED <<cfg, bcfg, ba, rp, pending, now, produced, led>>

WelfordNext ==
    \/ \E v \in WfValues : WfPush(v) /\ UNCHANGED <<ringAll, ctlVars>>
    \/ WfReset /\ UNCHANGED <<ringAll, ctlVars>>

(***************************************************************************)
(* Specifications                                                          *)
(***************************************************************************)
\* the ring as constructed, beside analyzers that are not run
Init ==
    /\ RingInit
    /\ AnaInit
    /\ CtlInit
SpecRing == Init /\ [][RingNext]_vars
SpecRingSeq == Init /\ [][SeqNext]_vars
SpecRuntime == RuntimeInit /\ [][RuntimeNext]_vars
SpecBreath == BreathInit /\ [][BreathNext]_vars
SpecRunner == RunnerInit /\ [][RunnerNext]_vars
SpecSampler == Init /\ [][SamplerNext]_vars
SpecWelford == Init /\ [][WelfordNext]_vars
SpecLife == Init /\ [][LifeNext]_vars
SpecLed == Init /\ [][LedNext]_vars
SpecDrain == Init /\ [][DrainNext]_vars

C3_NoTornRead ==
    /\ ~(cpc = "read2" /\ ppc = "write2" /\ c_tail = p_head)
    /\ cpc = "store_tail" =>
          /\ c_out[1] = c_out[2]
          /\ c_out[1] \in 1 .. lhead

(***************************************************************************)
(* C4: the number of live unread samples never exceeds the capacity, and   *)
(* neither cursor is ever moved back to an earlier logical position.       *)
(***************************************************************************)
C4_BoundedAndMonotonic ==
    /\ [](lhead - ltail <= RingSize)
    /\ [][lhead' >= lhead /\ ltail' >= ltail]_vars


(***************************************************************************)
(* C5: every window the Window Analyzer finalizes is handed to the Breath  *)
(* State Machine exactly once and in order: the windows an on_batch call   *)
(* hands over are exactly the windows it finalized, none skipped.          *)
(***************************************************************************)
C5_EveryWindowHandedOnce ==
    /\ hist.handed_last = [i \in 1 .. Len(hist.last) |-> hist.last[i].win]
    /\ hist.nhanded = hist.nfinal

(***************************************************************************)
(* C6: with a window of 1_000_000 us and the first sample at timestamp 0,  *)
(* timestamps up to 999_999 finalize no window, and the first sample at    *)
(* 1_000_000 finalizes exactly one window, from 0 to 1_000_000.            *)
(***************************************************************************)
C6_FirstWindowFromZero ==
    (cfg.window_micro = 1000000 /\ hist.an_first = 0) =>
        /\ hist.an_last <= 999999 => hist.nfinal = 0
        /\ hist.an_last = 1000000 =>
              /\ hist.nfinal = 1
              /\ hist.first_win = <<0, 1000000>>

(***************************************************************************)
(* C7: with a window of 1_000_000 us, after a first sample at 0 a sample   *)
(* at 3_500_000 finalizes exactly three windows, starting at 0, 1_000_000  *)
(* and 2_000_000, and the sample is then accumulated into the window       *)
(* starting at 3_000_000.                                                  *)
(***************************************************************************)
C7_GapFinalizesThree ==
    (/\ cfg.window_micro = 1000000
     /\ hist.an_first = 0 /\ hist.an_count = 2 /\ hist.an_last = 3500000) =>
        /\ hist.nfinal = 3
        /\ [i \in 1 .. Len(hist.last) |-> hist.last[i].win.window_start_us]
              = <<0, 1000000, 2000000>>
        /\ wa.window_start_micro_sec = 3000000
        /\ Len(hist.cur) = 1

(***************************************************************************)
(* C8: a finalized window is reported stable exactly when it and the R - 1 *)
(* windows finalized immediately before it each had enough samples and met *)
(* the stddev and drift thresholds (R = stable_consecutive_windows_req);   *)
(* so a window that does not qualify resets the streak.                    *)
(***************************************************************************)
C8_StableIffStreak ==
    LET R == cfg.stable_consecutive_windows_req
        q == hist.prevq \o Quals(hist.last)
        k == Len(hist.prevq)
    IN  \A i \in 1 .. Len(hist.last) :
            hist.last[i].win.stable
              = (/\ k + i >= R
                 /\ \A j \in (k + i - R + 1) .. (k + i) : q[j])

\* with R = 2, the second of two qualifying windows is reported stable
C8_Witness ==
    /\ cfg.stable_consecutive_windows_req = 2
    /\ hist.nfinal = 2
    /\ Len(hist.last) = 1
    /\ hist.last[1].win.stable
    /\ hist.prevq = <<TRUE>>

\* the edges of the breath state machine
BreathEdges ==
    { <<"Warmup", "Ready">>, <<"Ready", "Processing">>,
      <<"Processing", "Analyzed">>, <<"Processing", "Cooldown">>,
      <<"Analyzed", "Cooldown">>, <<"Cooldown", "Ready">> }

\* a window that takes the machine b, with the snapshot r, towards its next
\* state: stable, at the baseline in Warmup and Cooldown, at the start
\* threshold in Ready, at the end threshold in Processing
EscapeWindow(b, r, t) ==
    [ stable |-> TRUE,
      mean |-> CASE b.breath_state = "Ready" ->
                      Threshold(r, bcfg.start_delta_v, bcfg.start_k_sigma)
                 [] b.breath_state = "Processing" ->
                      Threshold(r, bcfg.end_delta_v, bcfg.end_k_sigma)
                 [] b.breath_state = "Warmup" /\ ~b.bFoundbaseline -> RInt(1000)
                 [] OTHER -> r.baseline_mean,
      stddev |-> r.baseline_std,
      mean_prev |-> R0, drift_per_sec |-> R0,
      window_start_us |-> t, window_end_us |-> t + cfg.window_micro ]

\* whether the machine b leaves its state within k such windows
RECURSIVE Leaves(_, _, _, _)
Leaves(b, r, t, k) ==
    IF k = 0 THEN FALSE
    ELSE LET x == AnalyzeBreath(b, EscapeWindow(b, r, t), r)
         IN  \/ x.ba.breath_state # b.breath_state
             \/ Leaves(x.ba, x.br, t + cfg.window_micro, k - 1)

(***************************************************************************)
(* C9: the breath state machine starts in Warmup; it changes state only    *)
(* along Warmup->Ready, Ready->Processing, Processing->Analyzed,           *)
(* Processing->Cooldown, Analyzed->Cooldown and Cooldown->Ready, so it     *)
(* never re-enters Warmup; and no state is terminal: from every state it   *)
(* reaches, some windows take it to another state.                         *)
(***************************************************************************)
C9_OnlyTheseEdges ==
    /\ ba.breath_state = "Warmup"
    /\ [][\/ ba.breath_state' = ba.breath_state
          \/ <<ba.breath_state, ba.breath_state'>> \in BreathEdges]_vars
    /\ [](Leaves(ba, rp.snapshot_, hist.btime,
                 bcfg.warmup_stable_windows + bcfg.cooldown_stable_windows))

\* back in Ready after a breath was analyzed and the sensor cooled down
C9_Witness ==
    /\ ba.breath_state = "Ready"
    /\ ba.analyzed_end_us # 0
    /\ hist.nwin = 5

(***************************************************************************)
(* C10: the machine leaves Warmup for Ready on exactly the window that is  *)
(* the warmup_stable_windows-th stable window it has absorbed, not on an   *)
(* earlier one; unstable windows do not count.                             *)
(***************************************************************************)
C10_ReadyOnNthStable ==
    /\ (ba.breath_state = "Warmup")
          = (hist.stable_fed < bcfg.warmup_stable_windows)
    /\ hist.ready_at # 0 => hist.ready_at = bcfg.warmup_stable_windows


(***************************************************************************)
(* C11: when Processing ends on a window with window_end - breath_start    *)
(* >= min_blow_time_us, AnalyzeBreath emits a BreathEvent (returns true):  *)
(* its start_us is the recorded breath start, its end_us the window's end, *)
(* its peak_voltage the largest window mean from the window that started   *)
(* Processing through this one; the machine is then in Analyzed and, one   *)
(* window later, in Cooldown; no other window emits an event.              *)
(***************************************************************************)
C11_EventOnProcessingExit ==
    /\ [](hist.ret => ba.breath_state = "Analyzed")
    /\ [][ba.breath_state = "Processing" /\ ba'.breath_state # "Processing"
            /\ rp'.snapshot_.last_window.window_end_us - ba.breath_start_us
                  >= bcfg.min_blow_time_us
          => /\ ba'.breath_state = "Analyzed"
             /\ hist'.ret
             /\ rp'.last_event.start_us = ba.breath_start_us
             /\ rp'.last_event.end_us
                   = rp'.snapshot_.last_window.window_end_us
             /\ rp'.last_event.peak_voltage = hist'.maxmean]_vars
    /\ [][hist'.ret => ba.breath_state = "Processing"]_vars
    /\ [][ba.breath_state = "Analyzed"
          => ba'.breath_state = "Cooldown" /\ ~hist'.ret]_vars

\* an event whose peak comes from a window before the one that ended the
\* breath
C11_Witness ==
    /\ ba.breath_state = "Analyzed"
    /\ hist.ret
    /\ rp.last_event.peak_voltage # rp.snapshot_.last_window.mean
    /\ rp.last_event.start_us # 0

(***************************************************************************)
(* C12: when a window's mean falls to or below the end threshold in        *)
(* Processing while window_end - breath_start is still below               *)
(* min_blow_time_us, no BreathEvent is emitted, the machine goes straight  *)
(* to Cooldown, not to Analyzed, and the cooldown counter is zero.         *)
(***************************************************************************)
C12_ShortBlowDiscarded ==
    [][ba.breath_state = "Processing"
         /\ RLe(rp'.snapshot_.last_window.mean,
                Threshold(rp.snapshot_, bcfg.end_delta_v, bcfg.end_k_sigma))
         /\ rp'.snapshot_.last_window.window_end_us - ba.breath_start_us
               < bcfg.min_blow_time_us
       => /\ ba'.breath_state = "Cooldown"
          /\ ~hist'.ret
          /\ rp'.last_event.start_us = 0 /\ rp'.last_event.end_us = 0
          /\ ba'.analyzed_end_us = ba.analyzed_end_us
          /\ ba'.cooldown_stable_count = 0]_vars

\* in Cooldown straight from Processing, no breath analyzed so far
C12_Witness ==
    /\ ba.breath_state = "Cooldown"
    /\ rp.last_event.State = "Processing"
    /\ ba.analyzed_end_us = 0
    /\ ~hist.ret

(***************************************************************************)
(* C13: in Cooldown the machine returns to Ready exactly on the window     *)
(* that completes cooldown_stable_windows consecutive windows that are     *)
(* stable with a mean at or below the ready threshold, and the peak is     *)
(* reset to 0 then; a window that does not qualify sets the counter back   *)
(* to zero and the machine stays in Cooldown.                              *)
(***************************************************************************)
C13_CooldownCount ==
    /\ [](ba.breath_state = "Cooldown" =>
             /\ hist.cq < bcfg.cooldown_stable_windows
             /\ ba.cooldown_stable_count = hist.cq)
    /\ [](hist.cq >= bcfg.cooldown_stable_windows =>
             /\ hist.cq = bcfg.cooldown_stable_windows
             /\ ba.breath_state = "Ready"
             /\ ba.cur_peak_voltage = R0
             /\ rp.snapshot_.peak_volts = R0)
    /\ [][ba.breath_state = "Cooldown" =>
             /\ ba'.breath_state \in {"Cooldown", "Ready"}
             /\ ba'.breath_state = "Ready"
                   => hist'.cq = bcfg.cooldown_stable_windows
             /\ hist'.cq = 0 => ba'.cooldown_stable_count = 0]_vars

\* back in Ready on the second of two qualifying windows in Cooldown
C13_Witness ==
    /\ ba.breath_state = "Ready"
    /\ bcfg.cooldown_stable_windows = 2
    /\ hist.cq = 2


(***************************************************************************)
(* C14: RuntimeProcess::on_batch returns a StepResult with an event other  *)
(* than None only for a window on which the breath state machine changes   *)
(* state; a window that leaves the state unchanged signals no event.       *)
(***************************************************************************)
C14_EventOnlyOnTransition ==
    [][hist'.nwin # hist.nwin
         => (hist'.event # "None") = (ba'.breath_state # ba.breath_state)]_vars

\* C15: under run() with the on_breath handler, which pops until
\* pop_breath_event returns false, the events the handler popped are at
\* every moment a prefix of the events on_batch recorded, in the same
\* order; the only event recorded and not yet popped is the one of the
\* on_batch call whose callback is about to run, and it is still the
\* processor's last_event; once the callback has run every recorded event
\* has been popped; on_batch never records an event while an earlier one
\* is still waiting
C15_EventsDeliveredInOrder ==
    /\ [](run.kind = "Runtime" =>
            /\ Len(run.delivered) <= Len(run.recorded)
            /\ run.delivered = SubSeq(run.recorded, 1, Len(run.delivered))
            /\ Len(run.recorded) - Len(run.delivered)
                 = (IF rp.bHasEvent THEN 1 ELSE 0)
            /\ (rp.bHasEvent =>
                  /\ run.pc = "event"
                  /\ rp.last_event = run.recorded[Len(run.recorded)])
            /\ (run.pc # "event" => run.delivered = run.recorded))
    /\ [][run'.recorded # run.recorded => ~rp.bHasEvent]_vars
\* two different events were recorded and both reached the handler
C15_Witness ==
    /\ run.kind = "Runtime"
    /\ run.pc = "action"
    /\ Len(run.delivered) >= 2
    /\ run.delivered[1] # run.delivered[2]
    /\ run.callbacks = Len(run.delivered)

\* C16: for the calibration processor (timeout enabled), an iteration of
\* run() whose drain gave no sample returns exactly when the elapsed time
\* read after the idle sleep has reached the timeout; when no drain of the
\* run gave a sample, on_event was never called, and a return that is not
\* due to g_running is due to the timeout, happens in an idle iteration
\* with the elapsed time at or over the timeout, and gives the all-zero
\* WindowResult
C16_IdleTimeoutReturnsZero ==
    /\ [](bEnableTimeout(run.kind) /\ hist.an_count = 0 =>
            /\ run.callbacks = 0
            /\ (run.pc = "returned" /\ run.why # "signal" =>
                  /\ run.why = "timeout"
                  /\ run.clock >= Consumer_Config.Timeout
                  /\ run.trace = <<"pop_batch", "sleep", "return">>
                  /\ run.result = WindowResult))
    /\ [][bEnableTimeout(run.kind) /\ run.pc = "drain" /\ pending = <<>>
            /\ run'.pc # run.pc
          => /\ (run'.pc = "returned")
                   = (run'.clock >= Consumer_Config.Timeout)
             /\ (run'.pc = "returned" =>
                   run'.result = processor_result(run.kind, run.last_, rp))
             /\ (run'.pc # "returned" => run'.pc = "head")
             /\ run'.callbacks = run.callbacks]_vars
\* run() returned by timeout without ever having drained a sample
C16_Witness ==
    /\ run.kind = "Calibration"
    /\ run.pc = "returned"
    /\ run.why = "timeout"
    /\ run.g_running
    /\ hist.an_count = 0
    /\ run.result = WindowResult

\* the number of on_event calls in a trace of one iteration
RECURSIVE Calls(_)
Calls(tr) ==
    IF tr = <<>> THEN 0
    ELSE (IF Head(tr) = "on_event" THEN 1 ELSE 0) + Calls(Tail(tr))

\* C17: in an iteration of run() that drained samples, once the test of
\* cur_step.event is over, on_event has been called once when the event
\* is not None and not at all when it is None, and nothing else followed
\* on_batch before the switch on the action; when the action is Done or
\* Abort the next step of run() is the return of processor.result(), with
\* no drain, no sleep (the clock is the same) and no callback in between
C17_CallbackThenAction ==
    /\ [](run.pc = "action" =>
            /\ run.trace = <<"pop_batch", "on_batch">>
                 \o (IF run.cur_step.event # "None" THEN <<"on_event">>
                                                    ELSE <<>>)
            /\ Calls(run.trace) = (IF run.cur_step.event # "None" THEN 1 ELSE 0))
    /\ [](run.pc = "returned" /\ run.why = "done" =>
            /\ run.cur_step.action \in {"Done", "Abort"}
            /\ run.trace = <<"pop_batch", "on_batch">>
                 \o (IF run.cur_step.event # "None" THEN <<"on_event">>
                                                    ELSE <<>>)
                 \o <<"return">>
            /\ run.result = processor_result(run.kind, run.last_, rp))
    /\ [][run.pc = "event" /\ run'.pc # run.pc =>
            /\ run'.pc = "action"
            /\ run'.callbacks
                 = run.callbacks + (IF run.cur_step.event # "None" THEN 1 ELSE 0)
            /\ run'.cur_step = run.cur_step]_vars
    /\ [][run.pc = "action" /\ run.cur_step.action \in {"Done", "Abort"}
            /\ run'.pc # run.pc
          => /\ run'.pc = "returned"
             /\ run'.result = processor_result(run.kind, run.last_, rp)
             /\ run'.clock = run.clock
             /\ run'.callbacks = run.callbacks
             /\ pending' = pending]_vars
\* run() returned on Done, after a batch that signalled no event, while an
\* earlier batch of the run had made it sleep (the clock moved)
C17_Witness ==
    /\ run.pc = "returned"
    /\ run.why = "done"
    /\ run.trace = <<"pop_batch", "on_batch", "return">>
    /\ run.callbacks = 0
    /\ run.clock > 0

\* C18: the calibration processor answers Done for a batch exactly when a
\* window with stable = true was finalized in that batch, and the result
\* is then that stable window; a run that ended by timeout gives a result
\* with stable = false
C18_DoneOnFirstStable ==
    /\ (run.kind = "Calibration" /\ run.cur_step # <<>> =>
          LET st == {i \in 1 .. Len(hist.last) : hist.last[i].win.stable}
          IN  /\ (run.cur_step.action = "Done") = (st # {})
              /\ (st # {} => /\ run.cur_step.result.stable
                             /\ run.last_ = run.cur_step.result))
    /\ (run.kind = "Calibration" /\ run.pc = "returned"
          /\ run.why = "timeout" => ~run.result.stable)

\* C19: run() over the runtime processor never returns through a timeout
\* test or a terminal action: when it has returned, g_running had been
\* cleared, the return is the one after the loop and the result is the
\* processor's snapshot; after g_running is cleared run() drains at most
\* once more (the iteration in progress), and the first test of g_running
\* after that returns processor.result() as it is then
C19_RuntimeStopsOnlyOnSignal ==
    /\ [](run.kind = "Runtime" =>
            /\ run.why \in {"none", "signal"}
            /\ run.after_stop <= 1
            /\ (run.pc = "returned" =>
                  /\ ~run.g_running
                  /\ run.why = "signal"
                  /\ run.result = rp.snapshot_))
    /\ [][run.kind = "Runtime" /\ run.pc = "head" /\ ~run.g_running
            /\ run'.pc # run.pc
          => /\ run'.pc = "returned"
             /\ run'.result = rp.snapshot_
             /\ UNCHANGED <<wa, ba, rp, pending>>]_vars
    /\ [][run.kind = "Runtime" /\ run.pc # "head" => run'.pc # "returned"]_vars
\* run() returned after g_running was cleared in the middle of an iteration
\* that went on to drain samples, with the elapsed time over the timeout
C19_Witness ==
    /\ run.kind = "Runtime"
    /\ run.pc = "returned"
    /\ run.after_stop = 1
    /\ run.clock >= Consumer_Config.Timeout
    /\ run.result.last_window.window_end_us # 0

\* C20: stop_sampler is run by the thread that owns the Sampler, never by
\* the sampling thread, before any start and again after a stop; whenever
\* it has returned (running is false and its caller is outside it) the
\* sampling thread is gone and is past its last instruction on the ring;
\* while no sampling thread exists nothing is pushed into the ring and
\* dropped_ does not change; a sampling thread ends at most one tick while
\* running is false, and exits at its next loop test
C20_StopJoinsTheThread ==
    /\ [](smp.cpc_ = "idle" /\ ~smp.running =>
            /\ smp.thread = "none"
            /\ smp.spc = "none"
            /\ ppc = "idle")
    /\ [](smp.late_ticks <= 1)
    /\ [][smp.thread = "none" =>
            /\ UNCHANGED <<head_, tail_, ring_buffer_, pushed, ppc>>
            /\ smp'.dropped_ = smp.dropped_]_vars
    /\ [][smp.spc = "top" /\ ~smp.running /\ smp'.spc # smp.spc =>
            smp'.spc = "exited" /\ smp'.thread = "exited"]_vars
    /\ [][smp.cpc_ = "idle" /\ smp.thread = "none" /\ ~smp'.running =>
            smp'.cpc_ = "idle"]_vars
\* stop_sampler has returned twice, the second time after joining a thread
\* that pushed samples, lost one to a full ring and finished a tick after
\* the stop was requested
C20_Witness ==
    /\ smp.stops = 2
    /\ smp.cpc_ = "idle"
    /\ smp.thread = "none"
    /\ ~smp.running
    /\ smp.late_ticks = 1
    /\ smp.dropped_ > 0
    /\ pushed > 0

\* C21: the deadline of run_sampler is at every moment the thread's start
\* plus one period per pass of the loop begun, whatever sample_value
\* returned in the passes before; a tick in which sample_value returns
\* false pushes nothing into the ring and leaves dropped_ and the deadline
\* as they are; only the top of the loop moves the deadline, by one period
C21_FailedTickKeepsSchedule ==
    /\ [](smp.next = smp.tick * SamplePeriod)
    /\ [][smp.spc = "tick" /\ smp'.spc = "sleep" =>
            /\ UNCHANGED <<head_, tail_, ring_buffer_, pushed, ppc>>
            /\ smp'.dropped_ = smp.dropped_
            /\ smp'.next = smp.next]_vars
    /\ [][smp.spc = "top" /\ smp'.spc = "tick" =>
            smp'.next = smp.next + SamplePeriod]_vars
    /\ [][smp.spc \in {"tick", "push", "sleep"} => smp'.next = smp.next]_vars
\* the first thread started is in its third tick after one tick that
\* pushed a sample and one in which sample_value failed
C21_Witness ==
    /\ smp.stops = 0
    /\ smp.tick = 3
    /\ smp.spc = "tick"
    /\ pushed = 1
    /\ smp.next = 3 * SamplePeriod

\* C22: dropped_ is 0 in a new Sampler and never decreases; the only step
\* that changes it is the one after a push_overwrite that returned false,
\* which adds one; with nobody popping, outside a push it equals the number
\* of samples push_overwrite has evicted from the ring
C22_DroppedCountsEvictions ==
    /\ [](smp.spc # "push" => smp.dropped_ = ltail)
    /\ [][smp'.dropped_
            = smp.dropped_ + (IF smp.spc = "push" /\ smp'.spc = "sleep"
                                   /\ ~p_ret THEN 1 ELSE 0)]_vars
    /\ [][smp.spc = "push" /\ smp'.spc = "sleep" => p_ret = ~p_overwriten]_vars
\* a thread that was never asked to stop is between two ticks, after pushes
\* of which the last evicted a sample
C22_Witness ==
    /\ smp.spc = "sleep"
    /\ smp.running
    /\ smp.dropped_ > 0
    /\ ~p_ret
    /\ lhead = pushed

PushRank(pc) ==
    CASE pc = "check" -> 1 [] pc = "load_tail" -> 2 [] pc = "store_tail" -> 3
      [] pc = "write1" -> 4 [] pc = "write2" -> 5 [] pc = "publish" -> 6
      [] pc = "idle" -> 7
PopRank(pc) ==
    CASE pc = "check" -> 1 [] pc = "read1" -> 2 [] pc = "read2" -> 3
      [] pc = "store_tail" -> 4 [] pc = "loop" -> 5 [] pc = "idle" -> 5

\* C24: under every interleaving of the producer and the consumer, a
\* thread inside push_overwrite can always take its next step, wherever
\* the consumer is and whether or not it ever moves, and every step it
\* takes brings it to a later instruction of the call, so the call is over
\* after at most six steps of the producer; likewise a thread inside pop
\* can always take its next step and is through the pop after at most four
C24_NeverBlocked ==
    /\ [](ppc # "idle" =>
            ENABLED ((\/ PushCheckFull \/ PushLoadTail \/ PushStoreTail
                      \/ PushWrite1 \/ PushWrite2 \/ PushPublish)
                     /\ ppc' # ppc))
    /\ [](cpc # "idle" => ENABLED (pop /\ cpc' # cpc))
    /\ [][ppc # "idle" /\ ppc' # ppc => PushRank(ppc') > PushRank(ppc)]_vars
    /\ [][cpc \notin {"idle", "loop"} /\ cpc' # cpc =>
            PopRank(cpc') > PopRank(cpc)]_vars
\* a push_overwrite into the full ring has returned while the consumer
\* stands in the middle of a pop
C24_Witness ==
    /\ ppc = "idle"
    /\ ~p_ret
    /\ pushed >= RingSize
    /\ cpc = "read2"
    /\ ltail > 0

\* C25: of the windows finalized while AnalyzeBatch went through a batch,
\* the call returns the first one with stable = true when there is one,
\* otherwise the last one, otherwise a result with window_end_us = 0 (and
\* then on_batch hands no window on)
C25_FirstStableElseLast ==
    LET st == {i \in 1 .. Len(hist.last) : hist.last[i].win.stable}
    IN  IF st # {}
           THEN hist.handed_last
                  = <<hist.last[CHOOSE i \in st : \A j \in st : i <= j].win>>
        ELSE IF hist.last # <<>>
           THEN hist.handed_last = <<hist.last[Len(hist.last)].win>>
        ELSE hist.handed_last = <<>>

\* C27: after an on_batch call that finalized windows, prev_window_mean is
\* the mean of the last window finalized, whether or not that window had
\* min_window_sample_size samples, and each window finalized in the call
\* reports as mean_prev the mean of the window finalized just before it
C27_PriorMeanAlwaysUpdated ==
    hist.last # <<>> =>
        /\ wa.prev_window_mean = hist.last[Len(hist.last)].win.mean
        /\ \A i \in 1 .. Len(hist.last) - 1 :
              hist.last[i + 1].win.mean_prev = hist.last[i].win.mean

\* C28: every window an on_batch call finalized with fewer than
\* min_window_sample_size samples is reported with stable = false and
\* drift_per_sec = 0, also when the windows before it qualified and its own
\* stddev and mean are within the thresholds; when the last window
\* finalized is such a window the streak stable_window_count is 0 after
\* the call, and the window that follows it is stable only when the
\* required streak is one window
C28_InsufficientWindow ==
    /\ \A i \in 1 .. Len(hist.last) :
          Len(hist.last[i].samples) < cfg.min_window_sample_size =>
              /\ ~hist.last[i].win.stable
              /\ hist.last[i].win.drift_per_sec = R0
              /\ (i < Len(hist.last) /\ hist.last[i + 1].win.stable =>
                    cfg.stable_consecutive_windows_req = 1)
    /\ (hist.last # <<>>
          /\ Len(hist.last[Len(hist.last)].samples)
               < cfg.min_window_sample_size
        => wa.stable_window_count = 0)
\* a window with one sample, where two are required, was finalized right
\* after a window that qualified
C28_Witness ==
    /\ cfg.min_window_sample_size = 2
    /\ Len(hist.last) = 1
    /\ Len(hist.last[1].samples) = 1
    /\ hist.prevq # <<>>
    /\ hist.prevq[Len(hist.prevq)]
    /\ wa.stable_window_count = 0
    /\ ~hist.last[1].win.stable

\* C29: a window w taken in Ready is compared with start_threshold =
\* baseline_mean + start_delta_v + start_k_sigma * baseline_std, the
\* baseline being the one of the snapshot before the window.  When w.mean
\* >= start_threshold the machine goes to Processing, breath_start_us is
\* w's start (w's end when the start is 0) and the peak, in the analyzer
\* and in the snapshot, is w.mean; when w.mean < start_threshold the
\* machine stays in Ready and breath_start_us and the peak are unchanged
C29_ReadyRisingEdge ==
    [][ba.breath_state = "Ready" /\ hist'.nwin # hist.nwin =>
         LET w == rp'.snapshot_.last_window
             start_threshold == Threshold(rp.snapshot_, bcfg.start_delta_v,
                                          bcfg.start_k_sigma)
         IN  IF RLe(start_threshold, w.mean)
                THEN /\ ba'.breath_state = "Processing"
                     /\ ba'.breath_start_us
                          = (IF w.window_start_us # 0 THEN w.window_start_us
                                                      ELSE w.window_end_us)
                     /\ ba'.cur_peak_voltage = w.mean
                     /\ rp'.snapshot_.peak_volts = w.mean
                ELSE /\ ba'.breath_state = "Ready"
                     /\ ba'.breath_start_us = ba.breath_start_us
                     /\ ba'.cur_peak_voltage = ba.cur_peak_voltage
                     /\ rp'.snapshot_.peak_volts = rp.snapshot_.peak_volts]_vars
\* the machine stayed in Ready over at least one window below the
\* threshold, and the window after took it to Processing with that
\* window's start and mean
C29_Witness ==
    /\ ba.breath_state = "Processing"
    /\ rp.last_event.State = "Ready"
    /\ ba.breath_start_us = rp.snapshot_.last_window.window_start_us
    /\ ba.cur_peak_voltage = rp.snapshot_.last_window.mean
    /\ hist.nwin >= 3
    /\ hist.nwin > hist.ready_at + 1

\* C30: a window w taken in Processing makes the machine leave Processing
\* if and only if w.mean <= end_threshold or the time from breath_start_us
\* to w's end exceeds max_blow_time_us
C30_ProcessingExitIff ==
    [][ba.breath_state = "Processing" /\ hist'.nwin # hist.nwin =>
         LET w == rp'.snapshot_.last_window
             end_threshold == Threshold(rp.snapshot_, bcfg.end_delta_v,
                                        bcfg.end_k_sigma)
             elapsed == w.window_end_us - ba.breath_start_us
         IN  (ba'.breath_state # "Processing")
               = (RLe(w.mean, end_threshold)
                    \/ elapsed > bcfg.max_blow_time_us)]_vars

\* the mean and the sample variance of a sequence of whole values by the
\* direct computation: the sum over the count, then the sum of the squared
\* deviations from that mean over count - 1.  Both are computed exactly (the
\* deviations as n * x - sum, the divisions last) and made a double at the end.
RECURSIVE SumSeq(_)
SumSeq(s) == IF s = <<>> THEN 0 ELSE SumSeq(SubSeq(s, 1, Len(s) - 1)) + s[Len(s)]
TwoPassMean(s) ==
    IF s = <<>> THEN R0
    ELSE Ovf(Rat(SumSeq([i \in 1 .. Len(s) |-> s[i][1]]), Len(s)))
TwoPassVariance(s) ==
    IF Len(s) <= 1 THEN R0
    ELSE LET n   == Len(s)
             sum == SumSeq([i \in 1 .. n |-> s[i][1]])
             sq  == [i \in 1 .. n |-> (n * s[i][1] - sum) * (n * s[i][1] - sum)]
         IN  Ovf(Rat(SumSeq(sq), n * n * (n - 1)))
\* |a - b| <= 1e-9 * max(|a|, |b|); equal infinities agree, NaN agrees with
\* nothing
Close(a, b) ==
    IF Fin(a) /\ Fin(b)
       THEN LET d == RAbs(RSub(a, b))
                m == RMax(RAbs(a), RAbs(b))
            IN  d[1] * m[2] <= (m[1] * d[2]) \div 1000000000
       ELSE a # NaN /\ b # NaN /\ a = b

\* C26: whatever doubles were pushed into WelfordStats since its reset, its
\* mean and variance_sample() agree with the two-pass mean and sample
\* variance of the same values within 1e-9 relative tolerance
C26_WelfordMatchesTwoPass ==
    /\ wa.WfS.num_samples = Len(hist.cur)
    /\ Close(wa.WfS.mean, TwoPassMean(hist.cur))
    /\ Close(variance_sample(wa.WfS), TwoPassVariance(hist.cur))

\* C31: whatever window is taken in Analyzed, the machine goes to Cooldown
\* with cooldown_stable_count = 0, the event of that window is tagged
\* Analyzed and carries as peak_voltage the peak of the breath that just
\* ended (the peak of the event that ended it, the largest window mean of
\* the breath), nothing is returned as a new breath, and the baseline and
\* the peak, in the analyzer and in the snapshot, are unchanged
C31_AnalyzedOneWindow ==
    [][ba.breath_state = "Analyzed" /\ hist'.nwin # hist.nwin =>
         /\ ba'.breath_state = "Cooldown"
         /\ ba'.cooldown_stable_count = 0
         /\ rp'.bHasEvent
         /\ rp'.last_event.State = "Analyzed"
         /\ hist'.event = "Analyzed"
         /\ rp'.last_event.peak_voltage = rp.last_event.peak_voltage
         /\ rp'.last_event.peak_voltage = hist.maxmean
         /\ rp'.last_event.peak_voltage = rp.snapshot_.peak_volts
         /\ ~hist'.ret
         /\ rp'.snapshot_.baseline_mean = rp.snapshot_.baseline_mean
         /\ rp'.snapshot_.baseline_std = rp.snapshot_.baseline_std
         /\ rp'.snapshot_.peak_volts = rp.snapshot_.peak_volts
         /\ ba'.cur_peak_voltage = ba.cur_peak_voltage]_vars
\* a breath with peak 1.100 V ended, and the window after it, stable or not
\* and still at 1.100 V, was answered with the Analyzed event
C31_Witness ==
    /\ ba.breath_state = "Cooldown"
    /\ rp.last_event.State = "Analyzed"
    /\ rp.last_event.peak_voltage = RInt(1100)
    /\ rp.snapshot_.last_window.mean = RInt(1100)
    /\ rp.snapshot_.last_window.stable

\* C32: a window changes baseline_mean or baseline_std only if it is
\* flagged stable and is taken in Warmup, Ready or Cooldown: a window taken
\* in Processing or Analyzed, and an unstable window in any state, leaves
\* both as they were
C32_BaselineFrame ==
    [][hist'.nwin # hist.nwin
         /\ (rp'.snapshot_.baseline_mean # rp.snapshot_.baseline_mean
               \/ rp'.snapshot_.baseline_std # rp.snapshot_.baseline_std)
       => /\ rp'.snapshot_.last_window.stable
          /\ ba.breath_state \in {"Warmup", "Ready", "Cooldown"}]_vars
\* the baseline was moved by a stable window taken in Cooldown: it lies
\* strictly between the two means the windows have had
C32_Witness ==
    /\ rp.last_event.State = "Cooldown"
    /\ rp.snapshot_.last_window.stable
    /\ rp.snapshot_.last_window.mean = RInt(1015)
    /\ RLt(RInt(1000), rp.snapshot_.baseline_mean)
    /\ RLt(rp.snapshot_.baseline_mean, RInt(1015))
    /\ hist.stable_fed = 2

\* C33: over the life of one ProcessRunner, whatever the number of run()
\* calls before it is destroyed, start_sampler is never called while the
\* sampling thread of an earlier call is still joinable, and once the
\* destructor's stop_sampler has returned no thread is left and
\* stop_sampler has returned once
C33_StartStopSymmetric ==
    /\ ~smp.terminated
    /\ (run.pc = "destroyed" /\ smp.cpc_ = "idle"
          => smp.thread = "none" /\ ~smp.running /\ smp.stops = 1)

\* the worker is idle: it waits and nothing is left for it to take
LedIdle == led.wpc = "wait" /\ ~led.pending_command /\ ~led.state_dirty

\* C34: once the handler has handled a Ready event, SetState(Ready) then
\* Apply_Command(Mask M_Blue), and the worker is idle again, the blue LED
\* and no other is lit
C34_ReadyShowsBlue ==
    led.event = "Ready" /\ led.hpc = "idle" /\ LedIdle => led.leds = {"Blue"}

\* C40: the commands Run_Command is called with are the commands submitted,
\* each once and in the order of submission: the i-th command run is the
\* i-th submitted, and when the worker is idle every submitted command has
\* been run
C40_CommandsOnceInOrder ==
    /\ \A i \in 1 .. Len(led.executed) : led.executed[i] = i
    /\ (LedIdle => Len(led.executed) = led.submitted)

\* C35: with the default configuration the thresholds AnalyzeBreath computes
\* from the snapshot are start_threshold = baseline_mean + 0.05 V + 3 *
\* baseline_std and end_threshold = baseline_mean + 0.02 V + 2 *
\* baseline_std (millivolts here)
C35_DefaultThresholds ==
    /\ Threshold(rp.snapshot_, bcfg.start_delta_v, bcfg.start_k_sigma)
         = RAdd(RAdd(rp.snapshot_.baseline_mean, RInt(50)),
                RMul(RInt(3), rp.snapshot_.baseline_std))
    /\ Threshold(rp.snapshot_, bcfg.end_delta_v, bcfg.end_k_sigma)
         = RAdd(RAdd(rp.snapshot_.baseline_mean, RInt(20)),
                RMul(RInt(2), rp.snapshot_.baseline_std))

\* C36: with the producer inside push_overwrite and the consumer inside
\* pop_batch at the same time, the samples one pop_batch call hands over
\* are in strictly increasing order of their push: none twice, none after a
\* sample pushed later
C36_DeliveredInPushOrder ==
    \A i \in 1 .. Len(batch) : \A j \in 1 .. Len(batch) :
        i < j => batch[i][1] < batch[j][1] /\ batch[i][2] < batch[j][2]

\* C37: whenever neither thread is inside the ring and the sampler has
\* counted its last push, the number of push_overwrite calls equals the
\* number of samples handed to the consumer plus the number still unread
\* in the ring plus dropped_
C37_SamplesConserved ==
    ppc = "idle" /\ cpc = "idle" /\ smp.spc # "push"
      => pushed = Len(drained) + Len(Unread) + smp.dropped_

C39_NoDrainedSampleSkipped ==
    hist.an_count = produced - Len(pending)

=============================================================================
